---------------------------- MODULE Spec2Model ----------------------------
(***************************************************************************)
(* smfh: a declarative filesystem activator.                               *)
(*                                                                         *)
(* The model follows src/src/manifest.rs (Manifest::activate, deactivate,  *)
(* diff, the ordering of File) and src/src/file_util.rs (File::activate,   *)
(* File::deactivate, File::check, chmod_chown, copy, symlink, directory,   *)
(* mkdir, prefix_move, rmdir, delete).  The filesystem primitives of       *)
(* std::fs that this code calls are modelled by what they do on a tree of  *)
(* files, directories and symbolic links.                                  *)
(*                                                                         *)
(* Conventions.  A path is the sequence of its components (the root is     *)
(* <<>>).  A Rust Option<T> is a set with at most one element: {} is None  *)
(* and {v} is Some(v).  A Result is a record with an ok field, and         *)
(* Let(call, LAMBDA r : ...) is `let r = call; ...`.  The kind             *)
(* that file_util.rs calls FileKind::File is the kind manifest.rs calls    *)
(* FileKind::Copy; the enum of manifest.rs has no RecursiveSymlink, so no  *)
(* manifest can hold one and its branches are not part of the model.       *)
(***************************************************************************)
EXTENDS Integers, Sequences, FiniteSets, TLC

VARIABLES
    fs,            \* the filesystem: [path -> node], absent paths not in DOMAIN
    script,        \* the invocations of the program still to run
    manifest,      \* the manifest given to the program (new manifest of diff)
    old_manifest,  \* the old manifest of diff
    prefix,        \* --prefix
    pc,            \* position of the running invocation
    mode,          \* which walk is running: "activate" or "deactivate"
    files,         \* self.files of the manifest being walked (after sort)
    idx,           \* position of the walk in files (1-based; rev() for deactivate)
    cur,           \* the FileWithMetadata inside File::activate
    updated_files, \* diff: pairs still to process
    new_files,     \* diff: self.files of the new manifest
    same_files,    \* diff: identical entries
    calls,         \* log of the per-entry calls of the running invocation
    done_cmds,     \* the invocations completed so far
    snap,          \* the filesystem when the running invocation started
    fs0,           \* the filesystem before the first invocation
    efs,           \* the filesystem when the last per-entry call started
    document,      \* the manifest file Manifest::read is given
    exit_code      \* the exit code of the process, None while it runs

vars == <<fs, script, manifest, old_manifest, prefix, pc, mode, files, idx, cur,
          updated_files, new_files, same_files, calls, done_cmds, snap, fs0, efs,
          document, exit_code>>

(***************************************************************************)
(* Bounds of the model.                                                    *)
(***************************************************************************)
MaxFiles == 2
MaxHops == 3

(***************************************************************************)
(* Options and results.                                                    *)
(***************************************************************************)
None == {}
Some(v) == {v}
is_some(o) == o # {}
is_none(o) == o = {}
unwrap(o) == CHOOSE v \in o : TRUE
unwrap_or(o, d) == IF o = {} THEN d ELSE unwrap(o)

\* `let v = <call>;`: the result of a call, bound once
Let(v, F(_)) == F(v)

(***************************************************************************)
(* The filesystem.                                                         *)
(***************************************************************************)
Proc == [uid |-> 0, gid |-> 0, umask_dir |-> 493]

RootNode == [type |-> "dir", content |-> "", link |-> <<>>,
             mode |-> 493, uid |-> 0, gid |-> 0]
FileNode(c, m, u, g) == [type |-> "file", content |-> c, link |-> <<>>,
                         mode |-> m, uid |-> u, gid |-> g]
DirNode(m, u, g) == [type |-> "dir", content |-> "", link |-> <<>>,
                     mode |-> m, uid |-> u, gid |-> g]
LinkNode(l, u, g) == [type |-> "symlink", content |-> "", link |-> l,
                      mode |-> 511, uid |-> u, gid |-> g]

exists(f, p) == p = <<>> \/ p \in DOMAIN f
node(f, p) == IF p = <<>> THEN RootNode ELSE f[p]
parent(p) == SubSeq(p, 1, Len(p) - 1)
file_name(p) == p[Len(p)]
IsPrefix(p, q) == Len(p) <= Len(q) /\ SubSeq(q, 1, Len(p)) = p
Under(f, p) == {q \in DOMAIN f : Len(q) > Len(p) /\ IsPrefix(p, q)}
Without(f, S) == [q \in (DOMAIN f) \ S |-> f[q]]
With(f, p, n) == (p :> n) @@ f

POk(p) == [ok |-> TRUE, path |-> p, err |-> ""]
PErr(e) == [ok |-> FALSE, path |-> <<>>, err |-> e]

\* Path resolution of the kernel: every component but the last is followed
\* through symbolic links; the last one is followed only when follow is set
\* (and must then exist).
RECURSIVE walk(_, _, _, _, _)
walk(f, done, rest, follow, fuel) ==
    IF rest = <<>> THEN POk(done)
    ELSE LET next == Append(done, Head(rest))
             last == Len(rest) = 1
         IN  IF next \notin DOMAIN f
             THEN IF last /\ ~follow THEN POk(next) ELSE PErr("ENOENT")
             ELSE CASE f[next].type = "symlink" ->
                         IF last /\ ~follow THEN POk(next)
                         ELSE IF fuel = 0 THEN PErr("ELOOP")
                         ELSE walk(f, <<>>, f[next].link \o Tail(rest), follow, fuel - 1)
                    [] f[next].type = "dir" -> walk(f, next, Tail(rest), follow, fuel)
                    [] OTHER -> IF last THEN POk(next) ELSE PErr("ENOTDIR")

lpath(f, p) == walk(f, <<>>, p, FALSE, MaxHops)

\* fs::canonicalize
fs_canonicalize(f, p) == walk(f, <<>>, p, TRUE, MaxHops)

\* fs::symlink_metadata: [ok, err, md] with md the node (lstat)
fs_symlink_metadata(f, p) ==
    Let(lpath(f, p), LAMBDA r :
        IF ~r.ok THEN [ok |-> FALSE, err |-> r.err, md |-> {}]
        ELSE IF ~exists(f, r.path) THEN [ok |-> FALSE, err |-> "ENOENT", md |-> {}]
        ELSE [ok |-> TRUE, err |-> "", md |-> {node(f, r.path)}])

FOk(f) == [ok |-> TRUE, err |-> "", fs |-> f]
FErr(f, e) == [ok |-> FALSE, err |-> e, fs |-> f]

\* fs::create_dir_all: make every missing component, through existing
\* directories and links to directories.
RECURSIVE create_dir_from(_, _, _)
create_dir_from(f, done, rest) ==
    IF rest = <<>> THEN FOk(f)
    ELSE Let(fs_canonicalize(f, Append(done, Head(rest))), LAMBDA r :
             IF r.ok
             THEN IF node(f, r.path).type = "dir"
                  THEN create_dir_from(f, r.path, Tail(rest))
                  ELSE FErr(f, IF Len(rest) = 1 THEN "EEXIST" ELSE "ENOTDIR")
             ELSE IF Append(done, Head(rest)) \in DOMAIN f THEN FErr(f, r.err)
             ELSE create_dir_from(
                      With(f, Append(done, Head(rest)),
                           DirNode(Proc.umask_dir, Proc.uid, Proc.gid)),
                      Append(done, Head(rest)), Tail(rest)))

fs_create_dir_all(f, p) == create_dir_from(f, <<>>, p)

\* fs::remove_file (unlink)
fs_remove_file(f, p) ==
    Let(lpath(f, p), LAMBDA r :
        IF ~r.ok THEN FErr(f, r.err)
        ELSE IF r.path \notin DOMAIN f THEN FErr(f, "ENOENT")
        ELSE IF f[r.path].type = "dir" THEN FErr(f, "EISDIR")
        ELSE FOk(Without(f, {r.path})))

\* fs::remove_dir_all: a link is unlinked, a directory goes with its subtree
fs_remove_dir_all(f, p) ==
    Let(lpath(f, p), LAMBDA r :
        IF ~r.ok THEN FErr(f, r.err)
        ELSE IF r.path \notin DOMAIN f THEN FErr(f, "ENOENT")
        ELSE IF f[r.path].type = "file" THEN FErr(f, "ENOTDIR")
        ELSE FOk(Without(f, {r.path} \cup Under(f, r.path))))

\* fs::remove_dir (rmdir): only an empty directory
fs_remove_dir(f, p) ==
    Let(lpath(f, p), LAMBDA r :
        IF ~r.ok THEN FErr(f, r.err)
        ELSE IF r.path \notin DOMAIN f THEN FErr(f, "ENOENT")
        ELSE IF f[r.path].type # "dir" THEN FErr(f, "ENOTDIR")
        ELSE IF Under(f, r.path) # {} THEN FErr(f, "ENOTEMPTY")
        ELSE FOk(Without(f, {r.path})))

\* rename(2) on resolved paths a (existing) and b
rename_at(f, a, b) ==
    IF b = <<>> THEN FErr(f, "EBUSY")
    ELSE IF a = b THEN FOk(f)
    ELSE IF IsPrefix(a, b) THEN FErr(f, "EINVAL")
    ELSE IF b \in DOMAIN f /\ f[a].type = "dir" /\ f[b].type # "dir"
         THEN FErr(f, "ENOTDIR")
    ELSE IF b \in DOMAIN f /\ f[a].type # "dir" /\ f[b].type = "dir"
         THEN FErr(f, "EISDIR")
    ELSE IF b \in DOMAIN f /\ Under(f, b) # {} THEN FErr(f, "ENOTEMPTY")
    ELSE LET moved == {a} \cup Under(f, a)
             to_of(q) == b \o SubSeq(q, Len(a) + 1, Len(q))
         IN  FOk([q \in {to_of(m) : m \in moved} |->
                     f[CHOOSE m \in moved : to_of(m) = q]]
                 @@ Without(f, moved \cup {b}))

\* fs::rename: moves an artifact with its subtree; replaces a non-directory
\* by a non-directory and an empty directory by a directory.
fs_rename(f, from, to) ==
    Let(lpath(f, from), LAMBDA a :
        IF ~a.ok THEN FErr(f, a.err)
        ELSE IF a.path \notin DOMAIN f THEN FErr(f, "ENOENT")
        ELSE Let(lpath(f, to), LAMBDA b :
                 IF ~b.ok THEN FErr(f, b.err) ELSE rename_at(f, a.path, b.path)))

\* open(2) of `to` for writing with O_CREAT | O_TRUNC, and the write of
\* content c with mode m: an existing file is rewritten, a missing one is
\* created, also where a dangling link at `to` points
write_file(f, to, c, m) ==
    Let(fs_canonicalize(f, to), LAMBDA b :
        IF b.ok
        THEN IF node(f, b.path).type # "file" THEN FErr(f, "EISDIR")
             ELSE FOk([f EXCEPT ![b.path].content = c, ![b.path].mode = m])
        ELSE Let(lpath(f, to), LAMBDA l :
             IF ~l.ok THEN FErr(f, l.err)
             ELSE IF l.path \in DOMAIN f
             THEN IF f[l.path].link = <<>> THEN FErr(f, "ENOENT")
                  ELSE Let(lpath(f, f[l.path].link), LAMBDA d :
                       IF ~d.ok \/ exists(f, d.path) THEN FErr(f, "ENOENT")
                       ELSE FOk(With(f, d.path, FileNode(c, m, Proc.uid, Proc.gid))))
             ELSE FOk(With(f, l.path, FileNode(c, m, Proc.uid, Proc.gid)))))

\* fs::copy: the source must resolve to a regular file; the destination is
\* opened for writing through symbolic links and gets the content and the
\* mode of the source.
fs_copy(f, from, to) ==
    Let(fs_canonicalize(f, from), LAMBDA a :
        IF ~a.ok THEN FErr(f, a.err)
        ELSE IF node(f, a.path).type # "file" THEN FErr(f, "EINVAL")
        ELSE write_file(f, to, f[a.path].content, f[a.path].mode))

\* std::os::unix::fs::symlink(original, link): the link stores original as
\* given; fails when something is at link.
unixFs_symlink(f, original, link) ==
    Let(lpath(f, link), LAMBDA r :
        IF ~r.ok THEN FErr(f, r.err)
        ELSE IF exists(f, r.path) THEN FErr(f, "EEXIST")
        ELSE FOk(With(f, r.path, LinkNode(original, Proc.uid, Proc.gid))))

\* fs::set_permissions (chmod): follows symbolic links
fs_set_permissions(f, p, m) ==
    Let(fs_canonicalize(f, p), LAMBDA r :
        IF ~r.ok THEN FErr(f, r.err)
        ELSE IF r.path = <<>> THEN FOk(f)
        ELSE FOk([f EXCEPT ![r.path].mode = m]))

chown_at(f, q, uid, gid) ==
    IF q = <<>> THEN FOk(f)
    ELSE FOk([f EXCEPT ![q].uid = unwrap_or(uid, @), ![q].gid = unwrap_or(gid, @)])

\* std::os::unix::fs::chown: follows symbolic links
unixFs_chown(f, p, uid, gid) ==
    Let(fs_canonicalize(f, p), LAMBDA r :
        IF ~r.ok THEN FErr(f, r.err) ELSE chown_at(f, r.path, uid, gid))

\* std::os::unix::fs::lchown: changes the link itself
unixFs_lchown(f, p, uid, gid) ==
    Let(lpath(f, p), LAMBDA r :
        IF ~r.ok THEN FErr(f, r.err)
        ELSE IF ~exists(f, r.path) THEN FErr(f, "ENOENT")
        ELSE chown_at(f, r.path, uid, gid))

(***************************************************************************)
(* manifest.rs: File, FileKind and the order of entries.                   *)
(***************************************************************************)
FileKind == {"directory", "copy", "symlink", "modify", "delete"}

File(source, target, kind, clobber, permissions, uid, gid, deact) ==
    [source |-> source, target |-> target, kind |-> kind, clobber |-> clobber,
     permissions |-> permissions, uid |-> uid, gid |-> gid,
     deactivate |-> deact, follow_symlinks |-> None]

\* fn value(file) of impl Ord for File
value(file) ==
    CASE file.kind = "directory" -> 1
      [] file.kind = "copy" -> 2
      [] file.kind = "symlink" -> 3
      [] file.kind = "modify" -> 4
      [] file.kind = "delete" -> 5

\* fn parents(path): path.ancestors().count(), the path itself and every
\* ancestor up to the root
parents(path) == Len(path) + 1

\* Ord::cmp(a, b) = Less
cmp_ignoring_depth(a, b) == value(a) < value(b)

cmp_less(a, b) ==
    IF b.kind = a.kind
    THEN parents(a.target) < parents(b.target)
    ELSE value(a) < value(b)

\* Vec::sort: a stable sort by cmp (insertion of each element after the
\* elements that are not greater)
RECURSIVE insert_sorted(_, _)
insert_sorted(s, x) ==
    IF s = <<>> THEN <<x>>
    ELSE IF cmp_less(x, s[Len(s)])
         THEN Append(insert_sorted(SubSeq(s, 1, Len(s) - 1), x), s[Len(s)])
         ELSE Append(s, x)

RECURSIVE sort(_)
sort(s) ==
    IF s = <<>> THEN <<>>
    ELSE insert_sorted(sort(SubSeq(s, 1, Len(s) - 1)), s[Len(s)])

\* Iterator::rev
RECURSIVE rev(_)
rev(s) == IF s = <<>> THEN <<>> ELSE Append(rev(Tail(s)), Head(s))

(***************************************************************************)
(* file_util.rs: helpers.                                                  *)
(***************************************************************************)
\* File::set_metadata: [ok, err, md]
set_metadata(f, e) ==
    Let(fs_symlink_metadata(f, e.target), LAMBDA m :
        IF ~m.ok
        THEN IF m.err = "ENOENT" THEN [ok |-> TRUE, err |-> "", md |-> None]
             ELSE [ok |-> FALSE, err |-> m.err, md |-> None]
        ELSE [ok |-> TRUE, err |-> "", md |-> m.md])

\* a preflight that lets every entry through
missing_source_unguarded(e) == FALSE

\* File::missing_source
missing_source(e) == e.kind \in {"symlink", "copy"} /\ is_none(e.source)

\* hash_file: the file is opened through links and read whole; xxh3_64 of
\* the bytes is taken to tell the contents of the model apart.
hash_file(f, p) ==
    Let(fs_canonicalize(f, p), LAMBDA r :
        IF ~r.ok THEN [ok |-> FALSE, err |-> r.err, hash |-> ""]
        ELSE IF node(f, r.path).type # "file"
             THEN [ok |-> FALSE, err |-> "EISDIR", hash |-> ""]
        ELSE [ok |-> TRUE, err |-> "", hash |-> f[r.path].content])

COk(b) == [ok |-> TRUE, err |-> "", val |-> b]
CErr(e) == [ok |-> FALSE, err |-> e, val |-> FALSE]

\* File::check, the arm of a Symlink entry
check_symlink(t, s) ==
    IF ~t.ok THEN CErr(t.err)
    ELSE IF ~s.ok THEN CErr(s.err)
    ELSE COk(t.path = s.path)

\* File::check, the last arm of a File (Copy) entry
check_hash(t, s) ==
    IF ~t.ok THEN CErr("Failed to hash file")
    ELSE IF ~s.ok THEN CErr("Failed to hash file")
    ELSE COk(t.hash = s.hash)

\* a check that does not compare the group
check_without_gid(f, e, md) ==
    IF is_none(md) THEN COk(e.kind = "delete")
    ELSE IF e.kind = "delete" THEN COk(FALSE)
    ELSE IF is_none(e.source) /\ e.kind \in {"symlink", "copy"}
         THEN CErr("missing_source")
    ELSE IF e.kind \in {"copy", "directory", "modify"} /\ is_some(e.permissions)
            /\ unwrap(e.permissions) # unwrap(md).mode
         THEN COk(FALSE)
    ELSE IF is_some(e.uid) /\ unwrap(e.uid) # unwrap(md).uid THEN COk(FALSE)
    ELSE IF e.kind = "symlink"
         THEN check_symlink(fs_canonicalize(f, e.target),
                            fs_canonicalize(f, unwrap(e.source)))
    ELSE IF e.kind = "directory" THEN COk(unwrap(md).type = "dir")
    ELSE IF e.kind = "copy" /\ unwrap(md).type # "file" THEN COk(FALSE)
    ELSE IF e.kind = "copy"
         THEN check_hash(hash_file(f, e.target), hash_file(f, unwrap(e.source)))
    ELSE COk(TRUE)

\* File::check, the arms of the match in their order
check(f, e, md) ==
    IF is_none(md) THEN COk(e.kind = "delete")
    ELSE IF e.kind = "delete" THEN COk(FALSE)
    ELSE IF is_none(e.source) /\ e.kind \in {"symlink", "copy"}
         THEN CErr("missing_source")
    ELSE IF e.kind \in {"copy", "directory", "modify"} /\ is_some(e.permissions)
            /\ unwrap(e.permissions) # unwrap(md).mode
         THEN COk(FALSE)
    ELSE IF is_some(e.uid) /\ unwrap(e.uid) # unwrap(md).uid THEN COk(FALSE)
    ELSE IF is_some(e.gid) /\ unwrap(e.gid) # unwrap(md).gid THEN COk(FALSE)
    ELSE IF e.kind = "symlink"
         THEN check_symlink(fs_canonicalize(f, e.target),
                            fs_canonicalize(f, unwrap(e.source)))
    ELSE IF e.kind = "directory" THEN COk(unwrap(md).type = "dir")
    ELSE IF e.kind = "copy" /\ unwrap(md).type # "file" THEN COk(FALSE)
    ELSE IF e.kind = "copy"
         THEN check_hash(hash_file(f, e.target), hash_file(f, unwrap(e.source)))
    ELSE COk(TRUE)

\* mkdir
mkdir(f, p) ==
    Let(fs_symlink_metadata(f, p), LAMBDA m :
        IF ~m.ok THEN fs_create_dir_all(f, p)
        ELSE IF unwrap(m.md).type # "dir" THEN FErr(f, "File in way")
        ELSE FOk(f))

\* prefix_move
RECURSIVE prefix_move(_, _, _)
prefix_move(f, p, pre) ==
    IF ~fs_symlink_metadata(f, p).ok THEN FOk(f)
    ELSE Let(fs_canonicalize(f, p), LAMBDA canon_path :
         IF ~canon_path.ok THEN FErr(f, canon_path.err)
         ELSE IF canon_path.path = <<>> THEN FErr(f, "Failed to get file name")
         ELSE Let(Append(parent(canon_path.path), pre \o file_name(canon_path.path)),
                  LAMBDA new_path :
              Let(IF fs_symlink_metadata(f, new_path).ok
                  THEN prefix_move(f, new_path, pre) ELSE FOk(f),
                  LAMBDA inner :
                  IF ~inner.ok THEN inner
                  ELSE fs_rename(inner.fs, canon_path.path, new_path))))

\* an rmdir that removes the directory with what is in it
rmdir_recursive(f, p) ==
    Let(fs_symlink_metadata(f, p), LAMBDA m :
        IF ~m.ok THEN FOk(f)
        ELSE IF unwrap(m.md).type # "dir" THEN FErr(f, "is not a directory")
        ELSE fs_remove_dir_all(f, p))

\* rmdir
rmdir(f, p) ==
    Let(fs_symlink_metadata(f, p), LAMBDA m :
        IF ~m.ok THEN FOk(f)
        ELSE IF unwrap(m.md).type # "dir" THEN FErr(f, "is not a directory")
        ELSE fs_remove_dir(f, p))

\* delete(filepath, metadata)
delete(f, p, md) ==
    IF md.type = "dir" THEN fs_remove_dir_all(f, p) ELSE fs_remove_file(f, p)

(***************************************************************************)
(* file_util.rs: the operations of one entry.  Each returns [ok, err, fs]: *)
(* a failing operation keeps what it changed before it failed.             *)
(***************************************************************************)
\* File::chmod_chown, from `if self.uid.is_some() || self.uid.is_some()`
\* on; metadata is the clone taken at the start of chmod_chown
chown_part(f, e, metadata) ==
    IF is_some(e.uid) \/ is_some(e.uid)
    THEN IF (is_some(e.uid) /\ unwrap(e.uid) = metadata.uid)
            /\ (is_some(e.gid) /\ unwrap(e.gid) = metadata.gid)
         THEN FOk(f)
         ELSE IF metadata.type = "symlink"
              THEN unixFs_lchown(f, e.target, e.uid, e.gid)
              ELSE unixFs_chown(f, e.target, e.uid, e.gid)
    ELSE FOk(f)

\* File::chmod_chown, after the metadata was found
chmod_part(f, e, metadata) ==
    IF e.kind # "symlink" /\ is_some(e.permissions)
    THEN IF metadata.mode = unwrap(e.permissions) THEN FOk(f)
         ELSE Let(fs_set_permissions(f, e.target, unwrap(e.permissions)), LAMBDA p1 :
                  IF ~p1.ok THEN p1 ELSE chown_part(p1.fs, e, metadata))
    ELSE chown_part(f, e, metadata)

\* a chmod_chown that takes a missing target for nothing to do
chmod_chown_lenient(f, e) ==
    Let(set_metadata(f, e), LAMBDA m :
        IF ~m.ok THEN FErr(f, m.err)
        ELSE IF is_none(m.md) THEN FOk(f)
        ELSE chmod_part(f, e, unwrap(m.md)))

\* File::chmod_chown
chmod_chown(f, e) ==
    Let(set_metadata(f, e), LAMBDA m :
        IF ~m.ok THEN FErr(f, m.err)
        ELSE IF is_none(m.md) THEN FErr(f, "file does not exist")
        ELSE chmod_part(f, e, unwrap(m.md)))

\* the panic of Option::unwrap on None (self.metadata.as_ref().unwrap(),
\* self.source.as_ref().unwrap()), kept as the error of the call it ends
UnwrapNone == "called Option::unwrap() on a None value"

\* File::symlink
symlink(f, e) ==
    IF e.target = <<>> THEN FErr(f, "Failed to get parent directory")
    ELSE Let(mkdir(f, parent(e.target)), LAMBDA d :
         IF is_none(e.source) THEN FErr(d.fs, UnwrapNone)
         ELSE Let(fs_canonicalize(d.fs, unwrap(e.source)), LAMBDA source :
             IF ~source.ok THEN FErr(d.fs, source.err)
             ELSE Let(unixFs_symlink(d.fs, source.path, e.target), LAMBDA l :
                      IF ~l.ok THEN l ELSE chmod_chown(l.fs, e))))

\* File::copy
copy(f, e) ==
    IF e.target = <<>> THEN FErr(f, "Failed to get parent directory")
    ELSE Let(mkdir(f, parent(e.target)), LAMBDA d :
         IF is_none(e.source) THEN FErr(d.fs, UnwrapNone)
         ELSE Let(fs_canonicalize(d.fs, unwrap(e.source)), LAMBDA source :
             IF ~source.ok THEN FErr(d.fs, source.err)
             ELSE Let(fs_copy(d.fs, source.path, e.target), LAMBDA c :
                      IF ~c.ok THEN c ELSE chmod_chown(c.fs, e))))

\* File::directory
directory(f, e) ==
    Let(mkdir(f, e.target), LAMBDA d : IF ~d.ok THEN d ELSE chmod_chown(d.fs, e))

\* an effective clobber in which the manifest's default comes first
effective_clobber_default_first(e, clobber_by_default) ==
    unwrap_or(clobber_by_default, unwrap_or(e.clobber, FALSE))

\* the effective clobber: self.clobber.unwrap_or(clobber_by_default), the
\* manifest's default being an Option itself
effective_clobber(e, clobber_by_default) ==
    unwrap_or(e.clobber, unwrap_or(clobber_by_default, FALSE))

\* File::activate, lines 59-66: the conflict resolution.
\* [returned, ok, err, fs, md]: returned tells that activate returned.
Returned(r, md) ==
    [returned |-> TRUE, ok |-> r.ok, err |-> r.err, fs |-> r.fs, md |-> md]
Goes_on(f, md) ==
    [returned |-> FALSE, ok |-> TRUE, err |-> "", fs |-> f, md |-> md]

resolve_conflict(f, e, md, clobber, pre) ==
    IF is_some(md) /\ e.kind \notin {"modify", "delete"}
    THEN Let(IF clobber THEN delete(f, e.target, unwrap(md))
             ELSE prefix_move(f, e.target, pre),
             LAMBDA r : IF ~r.ok THEN Returned(r, md) ELSE Goes_on(r.fs, md))
    ELSE Goes_on(f, md)

\* File::activate up to the end of the conflict resolution (lines 45-67)
activate_resolve_no_check(f, e, clobber_by_default, pre) ==
    IF missing_source(e) THEN Returned(FOk(f), None)
    ELSE Let(set_metadata(f, e), LAMBDA m :
         IF ~m.ok THEN Returned(FErr(f, m.err), None)
         ELSE IF is_none(m.md) /\ Let(check(f, e, m.md), LAMBDA c : c.ok /\ c.val)
              THEN Returned(FOk(f), m.md)
         ELSE resolve_conflict(f, e, m.md,
                               effective_clobber(e, clobber_by_default), pre))

activate_resolve(f, e, clobber_by_default, pre) ==
    IF missing_source(e) THEN Returned(FOk(f), None)
    ELSE Let(set_metadata(f, e), LAMBDA m :
         IF ~m.ok THEN Returned(FErr(f, m.err), None)
         ELSE IF Let(check(f, e, m.md), LAMBDA c : c.ok /\ c.val)
              THEN Returned(FOk(f), m.md)
         ELSE resolve_conflict(f, e, m.md,
                               effective_clobber(e, clobber_by_default), pre))

\* File::activate, the match on self.kind (lines 69-79); md is self.metadata
\* as observed before the conflict resolution
activate_place(f, e, md) ==
    CASE e.kind = "directory" -> directory(f, e)
      [] e.kind = "copy" -> copy(f, e)
      [] e.kind = "symlink" -> symlink(f, e)
      [] e.kind = "modify" -> chmod_chown(f, e)
      [] e.kind = "delete" -> IF is_none(md) THEN FErr(f, UnwrapNone)
                              ELSE delete(f, e.target, unwrap(md))

\* File::activate as a whole
File_activate(f, e, clobber_by_default, pre) ==
    Let(activate_resolve(f, e, clobber_by_default, pre), LAMBDA r :
        IF r.returned THEN [ok |-> r.ok, err |-> r.err, fs |-> r.fs]
        ELSE activate_place(r.fs, e, r.md))

\* a deactivation that removes the target of a Modify entry too
deactivate_kind_removing(f, e, md) ==
    CASE e.kind = "delete" -> FOk(f)
      [] e.kind = "directory" -> rmdir(f, e.target)
      [] OTHER -> delete(f, e.target, unwrap(md))

\* File::deactivate, the match on self.kind
deactivate_kind(f, e, md) ==
    CASE e.kind \in {"delete", "modify"} -> FOk(f)
      [] e.kind = "directory" -> rmdir(f, e.target)
      [] OTHER -> IF is_none(md) THEN FErr(f, UnwrapNone)
                  ELSE delete(f, e.target, unwrap(md))

\* File::deactivate, `!self.check()?` and what follows
deactivate_checked(f, e, md, c) ==
    IF ~c.ok THEN FErr(f, c.err)
    ELSE IF ~c.val THEN FErr(f, "File is not the same as expected")
    ELSE deactivate_kind(f, e, md)

\* File::deactivate
File_deactivate_unchecked(f, e) ==
    IF ~unwrap_or(e.deactivate, TRUE) THEN FOk(f)
    ELSE Let(set_metadata(f, e), LAMBDA m :
         IF ~m.ok THEN FErr(f, m.err)
         ELSE IF is_none(m.md) THEN FOk(f)
         ELSE deactivate_kind(f, e, m.md))

File_deactivate(f, e) ==
    IF ~unwrap_or(e.deactivate, TRUE) THEN FOk(f)
    ELSE Let(set_metadata(f, e), LAMBDA m :
         IF ~m.ok THEN FErr(f, m.err)
         ELSE IF is_none(m.md) THEN FOk(f)
         ELSE deactivate_checked(f, e, m.md, check(f, e, m.md)))

(***************************************************************************)
(* The atomic replacer (FileWithMetadata::atomic_activate).  Its code is   *)
(* not among the sources; it is modelled from the specification, section   *)
(* 4.3 and section 4.2 step 4: decline (Ok(false)) unless the target       *)
(* exists and source and target are both non-directories, fail on a        *)
(* read-only target, else create the new artifact at a sibling path and    *)
(* rename it over the target.  [ok, err, val, fs]                          *)
(***************************************************************************)
sibling(p) == Append(parent(p), ".tmp-" \o file_name(p))

\* mid is the filesystem between step 2 and step 3 of the swap, None when
\* the new artifact was not created at the sibling name
ADeclined(f) == [ok |-> TRUE, err |-> "", val |-> FALSE, fs |-> f, mid |-> None]
AFailed(g, m) == [ok |-> FALSE, err |-> m, val |-> FALSE, fs |-> g, mid |-> None]

atomic_swap(f, e) ==
    Let(IF e.kind = "copy" THEN copy(f, [e EXCEPT !.target = sibling(e.target)])
        ELSE symlink(f, [e EXCEPT !.target = sibling(e.target)]),
        LAMBDA made :
          IF ~made.ok THEN AFailed(made.fs, made.err)
          ELSE Let(fs_rename(made.fs, sibling(e.target), e.target), LAMBDA r :
                   IF r.ok THEN [ok |-> TRUE, err |-> "", val |-> TRUE, fs |-> r.fs,
                                 mid |-> Some(made.fs)]
                   ELSE [AFailed(r.fs, r.err) EXCEPT !.mid = Some(made.fs)]))

atomic_activate(f, e, md) ==
    IF e.kind \notin {"copy", "symlink"} \/ is_none(e.source) THEN ADeclined(f)
    ELSE IF is_none(md) THEN ADeclined(f)
    ELSE Let(fs_canonicalize(f, unwrap(e.source)), LAMBDA src :
         IF ~src.ok THEN ADeclined(f)
         ELSE IF unwrap(md).type = "dir" \/ node(f, src.path).type = "dir"
              THEN ADeclined(f)
         ELSE IF unwrap(md).type = "file" /\ unwrap(md).mode \in {292, 256}
              THEN AFailed(f, "target unwriteable")
         ELSE IF exists(f, sibling(e.target)) THEN AFailed(f, "no free sibling")
         ELSE atomic_swap(f, e))

(***************************************************************************)
(* manifest.rs: the walks of a manifest.                                   *)
(***************************************************************************)
activate_order(fl) == sort(fl)

\* the entries in the order Manifest::deactivate calls them
deactivate_order_forward(fl) == sort(fl)

deactivate_order(fl) == rev(sort(fl))

\* the loop of a walk goes on to the next entry whatever the result r of
\* the call on entry i of n was (`_ = file.activate(..).inspect_err(..)`)
walk_next_abort(i, n, r) == IF r.ok THEN i + 1 ELSE n + 1

walk_next(i, n, r) == i + 1

Call(op, e, r) == [op |-> op, file |-> e, ok |-> r.ok, err |-> r.err]

\* Manifest::activate as a whole: the filesystem after the calls of
\* File::activate on the sorted entries s, every result discarded
RECURSIVE activate_all(_, _, _, _)
activate_all(f, s, clobber_by_default, pre) ==
    IF s = <<>> THEN f
    ELSE Let(File_activate(f, Head(s), clobber_by_default, pre), LAMBDA r :
             activate_all(r.fs, Tail(s), clobber_by_default, pre))

Manifest_activate(f, m, pre) ==
    activate_all(f, activate_order(m.files), m.clobber_by_default, pre)

\* Manifest::deactivate as a whole
RECURSIVE deactivate_all(_, _)
deactivate_all(f, s) ==
    IF s = <<>> THEN f
    ELSE Let(File_deactivate(f, Head(s)), LAMBDA r : deactivate_all(r.fs, Tail(s)))

Manifest_deactivate(f, m) == deactivate_all(f, deactivate_order(m.files))

\* Vec::swap_remove
swap_remove(s, i) ==
    IF i = Len(s) THEN SubSeq(s, 1, Len(s) - 1)
    ELSE SubSeq([s EXCEPT ![i] = s[Len(s)]], 1, Len(s) - 1)

\* Iterator::position: the first index that satisfies P, 0 for None
position(s, P(_)) ==
    IF \E i \in 1..Len(s) : P(s[i])
    THEN CHOOSE i \in 1..Len(s) : P(s[i]) /\ \A j \in 1..(i - 1) : ~P(s[j])
    ELSE 0

\* a partition that pairs an old entry with a new entry of any kind on its
\* target
partition_step_any_kind(st, file) ==
    LET Same(inner) == inner = file
        Upd(inner) == inner.target = file.target
        i == position(st.new, Same)
        j == position(st.new, Upd)
    IN  IF i # 0
        THEN [st EXCEPT !.same = Append(@, st.new[i]), !.new = swap_remove(@, i)]
        ELSE IF j # 0
        THEN [st EXCEPT !.updated = Append(@, <<file, st.new[j]>>),
                        !.new = swap_remove(@, j)]
        ELSE [st EXCEPT !.old = Append(@, file)]

\* Manifest::diff, the partition (old_manifest.files.retain): st holds
\* new (self.files), same (same_files), updated (updated_files) and old
\* (the entries retain keeps)
partition_step(st, file) ==
    LET Same(inner) == inner = file
        Upd(inner) == inner.kind \in {"symlink", "copy"} /\ inner.target = file.target
        i == position(st.new, Same)
        j == position(st.new, Upd)
    IN  IF i # 0
        THEN [st EXCEPT !.same = Append(@, st.new[i]), !.new = swap_remove(@, i)]
        ELSE IF j # 0
        THEN [st EXCEPT !.updated = Append(@, <<file, st.new[j]>>),
                        !.new = swap_remove(@, j)]
        ELSE [st EXCEPT !.old = Append(@, file)]

RECURSIVE partition_from(_, _)
partition_from(st, old) ==
    IF old = <<>> THEN st
    ELSE partition_from(partition_step(st, Head(old)), Tail(old))

partition(new, old) ==
    partition_from([new |-> new, same |-> <<>>, updated |-> <<>>, old |-> <<>>], old)

\* Manifest::diff, the loop over updated_files, lines 273-293: the atomic
\* swap of new; am is the result of atomic.set_metadata()
diff_update_atomic(f, new, am) ==
    IF ~am.ok
    THEN [fs |-> f, push |-> FALSE, how |-> "dropped", ok |-> FALSE, err |-> am.err,
          mid |-> None]
    ELSE Let(atomic_activate(f, new, am.md), LAMBDA a :
             [fs |-> a.fs, push |-> ~(a.ok /\ a.val), how |-> "atomic",
              ok |-> a.ok, err |-> a.err, mid |-> a.mid])

\* Manifest::diff, lines 254-258: the old target exists and fails its check
diff_update_tampered(f, old, md) ==
    is_some(md) /\ Let(check(f, old, md), LAMBDA c : ~(c.ok /\ c.val))

\* a loop over updated_files that only queues new for the final activate
diff_update_queue_only(f, old, new, old_default, pre) ==
    [fs |-> f, push |-> TRUE, how |-> "queued", ok |-> TRUE, err |-> "", mid |-> None]

\* Manifest::diff, the body of the loop over updated_files for one pair:
\* [fs, push, how, ok, err, mid] with push telling that new is pushed to
\* self.files
diff_update(f, old, new, old_default, pre) ==
    IF ~effective_clobber(old, old_default)
       /\ Let(set_metadata(f, old), LAMBDA m :
              diff_update_tampered(f, old, IF m.ok THEN m.md ELSE None))
    THEN [fs |-> prefix_move(f, old.target, pre).fs, push |-> TRUE,
          how |-> "backup", ok |-> TRUE, err |-> "", mid |-> None]
    ELSE diff_update_atomic(f, new, set_metadata(f, new))

(***************************************************************************)
(* The inputs of the model: paths, source files, manifests, filesystems.   *)
(***************************************************************************)
S_A == <<"s", "a">>
S_B == <<"s", "b">>
S_X == <<"s", "x">>
S_DIR == <<"s">>
T == <<"t">>
T_F == <<"t", "f">>
T_G == <<"t", "g">>
T_D == <<"t", "d">>
T_DF == <<"t", "d", "f">>
T_L == <<"t", "l">>

DefaultPrefix == ".backup-"

\* /s with two regular files (0644 and 0600) and an empty /t
Fresh ==
    (S_DIR :> DirNode(493, 0, 0)) @@ (S_A :> FileNode("A", 420, 0, 0))
    @@ (S_B :> FileNode("B", 384, 0, 0)) @@ (T :> DirNode(493, 0, 0))

\* the states of /t/f an entry may meet
TargetStates ==
    { Fresh,
      With(Fresh, T_F, FileNode("A", 420, 0, 0)),
      With(Fresh, T_F, FileNode("A", 384, 1, 1)),
      With(Fresh, T_F, FileNode("X", 420, 0, 0)),
      With(Fresh, T_F, LinkNode(S_A, 0, 0)),
      With(With(Fresh, T_G, FileNode("X", 420, 0, 0)), T_F, LinkNode(T_G, 0, 0)),
      With(Fresh, T_F, LinkNode(T_G, 0, 0)),
      With(Fresh, T_F, DirNode(493, 0, 0)),
      With(With(Fresh, T_F, DirNode(493, 0, 0)), <<"t", "f", "c">>,
           FileNode("X", 420, 0, 0)) }

OptBool == {None, Some(TRUE), Some(FALSE)}

\* the entries of the per-entry specification: every kind on /t/f
EntryFiles ==
    { File(src, T_F, k, cl, pm, u, g, d) :
        src \in {None, Some(S_A), Some(S_X), Some(S_DIR)}, k \in FileKind, cl \in OptBool,
        pm \in {None, Some(420), Some(384)}, u \in {None, Some(0), Some(1)},
        g \in {None, Some(1)}, d \in {None, Some(FALSE)} }

\* the entries of the manifests of the manifest-level specifications
ManifestFiles ==
    { File(None, T_D, "directory", None, Some(493), None, None, None),
      File(None, T, "directory", None, None, None, None, None),
      File(Some(S_A), T_DF, "copy", None, Some(420), Some(1), None, None),
      File(Some(S_A), T_F, "copy", None, Some(384), None, None, None),
      File(Some(S_B), T_F, "copy", Some(FALSE), None, None, None, None),
      File(Some(S_A), T_F, "symlink", Some(TRUE), None, None, None, None),
      File(Some(S_X), T_L, "symlink", None, None, None, None, None),
      File(None, T_F, "modify", None, Some(420), None, None, None),
      File(None, T_F, "delete", None, None, None, None, None),
      File(Some(S_B), T_DF, "copy", None, None, None, None, Some(FALSE)) }

SeqsUpTo(S, n) == UNION {[1..k -> S] : k \in 0..n}

Manifest(fl, cbd) == [files |-> fl, clobber_by_default |-> cbd]

Invocation(sub, which) == [sub_command |-> sub, manifest |-> which]

\* const VERSION of the program
VERSION == 1

\* a manifest file as Manifest::read meets it: whether it opens, whether it
\* is JSON, its "version" member (missing, not a u64, or the u64 value) and
\* whether the whole deserializes into a Manifest
Document(opens, json, version, number, body) ==
    [opens |-> opens, json |-> json, version |-> version, number |-> number,
     body |-> body]

Documents ==
    { Document(o, j, v, n, b) :
        o \in BOOLEAN, j \in BOOLEAN, v \in {"missing", "not_u64", "u64"},
        n \in 0..(VERSION + 1), b \in BOOLEAN }

\* the exit codes of a panic: 101 when the panic unwinds, 134 (SIGABRT)
\* when the build aborts on panic
PanicCodes == {101, 134}

\* Manifest::read up to the deserialized manifest: the set of its outcomes,
\* None for a manifest that was read, Some(code) for process::exit(code)
\* or a panic
read(d) ==
    IF ~d.opens THEN {Some(3)}
    ELSE IF ~d.json THEN {Some(3)}
    ELSE IF d.version = "missing" THEN {Some(3)}
    ELSE IF d.version = "not_u64" THEN {Some(c) : c \in PanicCodes}
    ELSE IF d.number > VERSION THEN {Some(2)}
    ELSE IF ~d.body THEN {Some(3)}
    ELSE {None}

InitWith(f, sc, m, o) ==
    /\ fs = f
    /\ script = sc
    /\ manifest = m
    /\ old_manifest = o
    /\ prefix = DefaultPrefix
    /\ pc = "idle"
    /\ mode = "none"
    /\ files = <<>>
    /\ idx = 0
    /\ cur = None
    /\ updated_files = <<>>
    /\ new_files = <<>>
    /\ same_files = <<>>
    /\ calls = <<>>
    /\ done_cmds = <<>>
    /\ snap = f
    /\ efs = f
    /\ fs0 = f
    /\ document = Document(TRUE, TRUE, "u64", VERSION, TRUE)
    /\ exit_code = None

\* Manifest level: activate twice, or activate and then deactivate once or
\* twice, a manifest of up to MaxFiles entries in any order.
Init ==
    \E f \in {Fresh, With(Fresh, T_F, FileNode("X", 420, 0, 0))},
       fl \in SeqsUpTo(ManifestFiles, MaxFiles),
       cbd \in OptBool,
       sc \in { <<Invocation("activate", "new"), Invocation("activate", "new")>>,
                <<Invocation("activate", "new"), Invocation("deactivate", "new")>>,
                <<Invocation("activate", "new"), Invocation("deactivate", "new"),
                  Invocation("deactivate", "new")>> } :
        InitWith(f, sc, Manifest(fl, cbd), Manifest(fl, cbd))

\* Entry level: one invocation on a manifest of one entry.
InitEntry ==
    \E f \in TargetStates, e \in EntryFiles, cbd \in {None, Some(TRUE)},
       sub \in {"activate", "deactivate"} :
        /\ sub = "deactivate" => cbd = None
        /\ InitWith(f, <<Invocation(sub, "new")>>,
                    Manifest(<<e>>, cbd), Manifest(<<e>>, cbd))

(***************************************************************************)
(* The program.                                                            *)
(***************************************************************************)
the_manifest(which) == IF which = "old" THEN old_manifest ELSE manifest

diff_vars == <<updated_files, new_files, same_files>>
input_vars == <<manifest, old_manifest, prefix, fs0, document, exit_code>>

\* main: `activate <manifest>` enters Manifest::activate
StartActivate ==
    /\ pc = "idle" /\ script # <<>>
    /\ Head(script).sub_command = "activate"
    /\ files' = activate_order(the_manifest(Head(script).manifest).files)
    /\ idx' = 1 /\ mode' = "activate" /\ pc' = "walk"
    /\ calls' = <<>> /\ snap' = fs
    /\ UNCHANGED <<fs, script, cur, done_cmds, efs, diff_vars, input_vars>>

\* main: `deactivate <manifest>` enters Manifest::deactivate
StartDeactivate ==
    /\ pc = "idle" /\ script # <<>>
    /\ Head(script).sub_command = "deactivate"
    /\ files' = deactivate_order(the_manifest(Head(script).manifest).files)
    /\ idx' = 1 /\ mode' = "deactivate" /\ pc' = "walk"
    /\ calls' = <<>> /\ snap' = fs
    /\ UNCHANGED <<fs, script, cur, done_cmds, efs, diff_vars, input_vars>>

\* File::activate on the next entry, up to the end of the conflict
\* resolution
ActivateResolve ==
    /\ pc = "walk" /\ mode = "activate" /\ idx <= Len(files)
    /\ \E r \in {activate_resolve(fs, files[idx],
                    the_manifest(Head(script).manifest).clobber_by_default, prefix)} :
           /\ efs' = fs
           /\ fs' = r.fs
           /\ IF r.returned
              THEN /\ calls' = Append(calls, Call("activate", files[idx], r))
                   /\ idx' = walk_next(idx, Len(files), r)
                   /\ pc' = "walk" /\ cur' = None
              ELSE /\ pc' = "place"
                   /\ cur' = Some([file |-> files[idx], metadata |-> r.md])
                   /\ UNCHANGED <<calls, idx>>
    /\ UNCHANGED <<script, mode, files, done_cmds, snap, diff_vars, input_vars>>

\* File::activate, the match on the kind
ActivatePlace ==
    /\ pc = "place"
    /\ \E r \in {activate_place(fs, unwrap(cur).file, unwrap(cur).metadata)} :
           /\ fs' = r.fs
           /\ calls' = Append(calls, Call("activate", unwrap(cur).file, r))
           /\ idx' = walk_next(idx, Len(files), r)
    /\ pc' = "walk" /\ cur' = None
    /\ UNCHANGED <<script, mode, files, done_cmds, snap, efs, diff_vars, input_vars>>

\* File::deactivate on the next entry
DeactivateFile ==
    /\ pc = "walk" /\ mode = "deactivate" /\ idx <= Len(files)
    /\ \E r \in {File_deactivate(fs, files[idx])} :
           /\ efs' = fs
           /\ fs' = r.fs
           /\ calls' = Append(calls, Call("deactivate", files[idx], r))
           /\ idx' = walk_next(idx, Len(files), r)
    /\ UNCHANGED <<script, pc, mode, files, cur, done_cmds, snap, diff_vars, input_vars>>

\* the walk of an activate or deactivate invocation is over: main returns
EndWalk ==
    /\ pc = "walk" /\ idx > Len(files)
    /\ Head(script).sub_command # "diff" \/ mode = "activate"
    /\ pc' = "idle" /\ mode' = "none"
    /\ script' = Tail(script)
    /\ done_cmds' = Append(done_cmds, [invocation |-> Head(script), calls |-> calls])
    /\ UNCHANGED <<fs, files, idx, cur, calls, snap, efs, diff_vars, input_vars>>

\* main: `diff <manifest> <old_manifest>` enters Manifest::diff: the
\* partition, then old_manifest.deactivate() begins
StartDiff ==
    /\ pc = "idle" /\ script # <<>>
    /\ Head(script).sub_command = "diff"
    /\ \E st \in {partition(manifest.files, old_manifest.files)} :
           /\ new_files' = st.new
           /\ same_files' = st.same
           /\ updated_files' = st.updated
           /\ files' = deactivate_order(st.old)
    /\ idx' = 1 /\ mode' = "deactivate" /\ pc' = "walk"
    /\ calls' = <<>> /\ snap' = fs
    /\ UNCHANGED <<fs, script, cur, done_cmds, efs, input_vars>>

\* Manifest::diff: old_manifest.deactivate() returned
DiffDeactivated ==
    /\ pc = "walk" /\ idx > Len(files)
    /\ Head(script).sub_command = "diff" /\ mode = "deactivate"
    /\ pc' = "updated" /\ mode' = "none"
    /\ UNCHANGED <<fs, script, files, idx, cur, calls, done_cmds, snap, efs,
                   diff_vars, input_vars>>

\* what one turn of the loop over updated_files leaves, r being the result
\* of diff_update on the head of updated_files
DiffTurnDone(r) ==
    /\ fs' = r.fs
    /\ new_files' = IF r.push THEN Append(new_files, Head(updated_files)[2])
                    ELSE new_files
    /\ calls' = Append(calls, Call(r.how, Head(updated_files)[2], r))
    /\ updated_files' = Tail(updated_files)
    /\ pc' = "updated" /\ cur' = None

\* Manifest::diff: one turn of the loop over updated_files; when the swap
\* has created the new artifact at the sibling name the turn stops there,
\* before the rename
DiffUpdate ==
    /\ pc = "updated" /\ updated_files # <<>>
    /\ efs' = fs
    /\ \E r \in {diff_update(fs, Head(updated_files)[1], Head(updated_files)[2],
                            old_manifest.clobber_by_default, prefix)} :
           IF is_some(r.mid)
           THEN /\ fs' = unwrap(r.mid)
                /\ pc' = "swap" /\ cur' = Some(r)
                /\ UNCHANGED <<new_files, calls, updated_files>>
           ELSE DiffTurnDone(r)
    /\ UNCHANGED <<script, mode, files, idx, done_cmds, snap, same_files, input_vars>>

\* Manifest::diff: the rename of the swap, the end of the turn
DiffSwap ==
    /\ pc = "swap"
    /\ DiffTurnDone(unwrap(cur))
    /\ UNCHANGED <<script, mode, files, idx, done_cmds, snap, efs, same_files,
                   input_vars>>

\* a final activate that does not wait for the loop over updated_files
DiffActivateEarly ==
    /\ pc = "updated"
    /\ files' = activate_order(new_files \o same_files)
    /\ idx' = 1 /\ mode' = "activate" /\ pc' = "walk"
    /\ UNCHANGED <<fs, script, cur, calls, done_cmds, snap, efs, diff_vars, input_vars>>

\* Manifest::diff: self.files.append(same_files); self.activate(prefix)
DiffActivate ==
    /\ pc = "updated" /\ updated_files = <<>>
    /\ files' = activate_order(new_files \o same_files)
    /\ idx' = 1 /\ mode' = "activate" /\ pc' = "walk"
    /\ UNCHANGED <<fs, script, cur, calls, done_cmds, snap, efs, diff_vars, input_vars>>

Next ==
    \/ StartActivate
    \/ StartDeactivate
    \/ ActivateResolve
    \/ ActivatePlace
    \/ DeactivateFile
    \/ EndWalk

Spec == Init /\ [][Next]_vars

SpecEntry == InitEntry /\ [][Next]_vars


\* the entries of the manifests of the diff-level specification: those of
\* the manifest level and two Symlink entries on one target
DiffFiles ==
    ManifestFiles
    \cup { File(Some(S_A), T_L, "symlink", None, None, None, None, None),
           File(Some(S_B), T_L, "symlink", None, None, None, None, None) }

\* the fresh filesystem with a regular file where the directory /t/d would be
Blocked == With(Fresh, T_D, FileNode("X", 420, 0, 0))

\* Diff level: diff(new, old) after activate(old) or on a filesystem as it
\* is, and the run it stands for: deactivate(old), then activate(new).
InitDiff ==
    \E fl \in SeqsUpTo(DiffFiles, MaxFiles), cbd \in {None, Some(TRUE)},
       f \in {Fresh, Blocked},
       sc \in { <<Invocation("activate", "old"), Invocation("diff", "new")>>,
                <<Invocation("diff", "new")>>,
                <<Invocation("activate", "old"), Invocation("deactivate", "old"),
                  Invocation("activate", "new")>> } :
      \E ol \in {fl} \cup {<<o>> : o \in DiffFiles} :
        InitWith(f, sc, Manifest(fl, cbd), Manifest(ol, cbd))

NextDiff ==
    \/ Next
    \/ StartDiff
    \/ DiffDeactivated
    \/ DiffUpdate
    \/ DiffSwap
    \/ DiffActivate

SpecDiff == InitDiff /\ [][NextDiff]_vars

\* Read level: one invocation on a manifest of one entry, the manifest
\* file still to be read.
InitRead ==
    \E d \in Documents, e \in ManifestFiles, sub \in {"activate", "deactivate"},
       f \in {Fresh, With(Fresh, T_F, FileNode("X", 420, 0, 0))} :
        /\ fs = f /\ fs0 = f /\ snap = f /\ efs = f
        /\ script = <<Invocation(sub, "new")>>
        /\ manifest = Manifest(<<e>>, None) /\ old_manifest = Manifest(<<e>>, None)
        /\ prefix = DefaultPrefix
        /\ pc = "read" /\ mode = "none"
        /\ files = <<>> /\ idx = 0 /\ cur = None
        /\ updated_files = <<>> /\ new_files = <<>> /\ same_files = <<>>
        /\ calls = <<>> /\ done_cmds = <<>>
        /\ document = d /\ exit_code = None

\* main: Manifest::read of the manifest argument
ReadManifest ==
    /\ pc = "read"
    /\ \E r \in read(document) :
           /\ exit_code' = r
           /\ pc' = IF is_some(r) THEN "exited" ELSE "idle"
    /\ UNCHANGED <<fs, script, manifest, old_manifest, prefix, mode, files, idx, cur,
                   updated_files, new_files, same_files, calls, done_cmds, snap,
                   fs0, efs, document>>

NextRead ==
    \/ Next
    \/ ReadManifest

SpecRead == InitRead /\ [][NextRead]_vars

\* the entries of the manifests of the partition-level specification:
\* three entries that differ on one target, and entries on other targets
PartFiles ==
    { File(Some(S_A), T_F, "copy", None, Some(384), None, None, None),
      File(Some(S_B), T_F, "copy", Some(FALSE), None, None, None, None),
      File(Some(S_A), T_F, "symlink", Some(TRUE), None, None, None, None),
      File(None, T_F, "modify", None, Some(420), None, None, None),
      File(Some(S_A), T_L, "symlink", None, None, None, None, None),
      File(None, T_D, "directory", None, Some(493), None, None, None) }

\* Partition level: diff(new, old) after activate(old), for any two
\* manifests of up to MaxFiles entries each.
InitPartition ==
    \E new \in SeqsUpTo(PartFiles, MaxFiles), old \in SeqsUpTo(PartFiles, MaxFiles) :
        InitWith(Fresh, <<Invocation("activate", "old"), Invocation("diff", "new")>>,
                 Manifest(new, None), Manifest(old, None))

NextPartition ==
    \/ StartActivate
    \/ ActivateResolve
    \/ ActivatePlace
    \/ EndWalk
    \/ StartDiff
    \/ DeactivateFile
    \/ DiffDeactivated
    \/ DiffUpdate
    \/ DiffSwap
    \/ DiffActivate

SpecPartition == InitPartition /\ [][NextPartition]_vars

\* the backup path of /t/f
T_BF == <<"t", ".backup-f">>

\* what prefix_move may find at the destination of /t/f: nothing, a regular
\* file, an empty or a non-empty directory
BackupStates(f) ==
    { f,
      With(f, T_BF, FileNode("O", 420, 0, 0)),
      With(f, T_BF, DirNode(493, 0, 0)),
      With(With(f, T_BF, DirNode(493, 0, 0)), <<"t", ".backup-f", "c">>,
           FileNode("O", 420, 0, 0)) }

\* Move level: one call prefix_move(path, prefix), as File::activate and
\* Manifest::diff make it on the target of an entry, here files[1].
InitMove ==
    \E t \in TargetStates, e \in {ef \in EntryFiles : ef.kind \in {"copy", "symlink"}
                                     /\ ef.source = Some(S_A) /\ ef.clobber = None
                                     /\ ef.uid = None /\ ef.gid = None
                                     /\ ef.deactivate = None} :
      \E f \in BackupStates(t) :
        /\ fs = f /\ fs0 = f /\ snap = f /\ efs = f
        /\ script = <<>>
        /\ manifest = Manifest(<<e>>, None) /\ old_manifest = Manifest(<<e>>, None)
        /\ prefix = DefaultPrefix
        /\ pc = "move" /\ mode = "none"
        /\ files = <<e>> /\ idx = 1 /\ cur = None
        /\ updated_files = <<>> /\ new_files = <<>> /\ same_files = <<>>
        /\ calls = <<>> /\ done_cmds = <<>>
        /\ document = Document(TRUE, TRUE, "u64", VERSION, TRUE)
        /\ exit_code = None

\* prefix_move(&self.target, prefix)
PrefixMove ==
    /\ pc = "move"
    /\ \E r \in {prefix_move(fs, files[idx].target, prefix)} :
           /\ efs' = fs
           /\ fs' = r.fs
           /\ calls' = Append(calls, Call("prefix_move", files[idx], r))
    /\ pc' = "moved"
    /\ UNCHANGED <<script, mode, files, idx, cur, done_cmds, snap, diff_vars, input_vars>>

NextMove == PrefixMove

SpecMove == InitMove /\ [][NextMove]_vars

\* a source that is itself a symbolic link, to /s/a
S_L == <<"s", "l">>

LinkFresh == With(Fresh, S_L, LinkNode(S_A, 0, 0))

\* the states of /t/f a Symlink or Modify entry may meet
LinkStates ==
    { LinkFresh,
      With(LinkFresh, T_F, LinkNode(S_A, 0, 0)),
      With(LinkFresh, T_F, LinkNode(S_L, 0, 0)),
      With(LinkFresh, T_F, LinkNode(S_X, 0, 0)),
      With(LinkFresh, T_F, LinkNode(S_B, 0, 0)),
      With(LinkFresh, T_F, LinkNode(S_A, 1, 0)),
      With(LinkFresh, T_F, FileNode("A", 420, 0, 0)),
      With(LinkFresh, T_F, FileNode("A", 384, 1, 0)) }

\* the entries of the link-level specification: Symlink entries with every
\* follow_symlinks, Modify entries, and a Symlink entry on its own source
LinkFiles ==
    { [File(src, T_F, "symlink", cl, pm, u, None, None) EXCEPT !.follow_symlinks = fo] :
        src \in {Some(S_A), Some(S_L), Some(S_X)}, cl \in {None, Some(TRUE)},
        pm \in {None, Some(384)}, u \in {None, Some(1)}, fo \in OptBool }
    \cup { File(None, T_F, "modify", None, pm, u, None, None) :
             pm \in {None, Some(384)}, u \in {None, Some(1)} }
    \cup { File(Some(S_A), S_A, "symlink", None, None, None, None, None) }

\* Link level: one invocation on a manifest of one Symlink or Modify entry.
InitLink ==
    \E f \in LinkStates, e \in LinkFiles, sub \in {"activate", "deactivate"} :
        InitWith(f, <<Invocation(sub, "new")>>, Manifest(<<e>>, None), Manifest(<<e>>, None))

SpecLink == InitLink /\ [][Next]_vars

(***************************************************************************)
(* The properties of the specification, stated over the runs above.       *)
(***************************************************************************)
\* the rank of a kind and the key of an entry as the specification gives
\* them (section 4.1)
KindRank(k) ==
    CASE k = "directory" -> 1
      [] k = "copy" -> 2
      [] k = "symlink" -> 3
      [] k = "modify" -> 4
      [] k = "delete" -> 5

\* path.ancestors().count() of an absolute path: its components and the root
AncestorCount(p) == Len(p) + 1

KeyLeq(a, b) ==
    \/ KindRank(a.kind) < KindRank(b.kind)
    \/ KindRank(a.kind) = KindRank(b.kind)
       /\ AncestorCount(a.target) <= AncestorCount(b.target)

Count(x, s) == Cardinality({i \in 1..Len(s) : s[i] = x})

Range(s) == {s[i] : i \in 1..Len(s)}

SamePerm(s, t) ==
    Len(s) = Len(t) /\ \A x \in Range(s) \cup Range(t) : Count(x, s) = Count(x, t)

CallFiles(cs) == [i \in 1..Len(cs) |-> cs[i].file]

Sub(i) == done_cmds[i].invocation.sub_command

\* C1: Manifest activate calls per-entry activate on the entries in
\* non-decreasing order of (kind rank, ancestor count of the target),
\* whatever the order in the manifest, and an entry is wholly applied
\* (its call has returned) before the next entry begins: the calls made so
\* far are the first entries of the walk, the entry in progress is the next
\* one, and the walk is a key-ordered permutation of the manifest.
C1_ActivationOrder ==
    mode = "activate" =>
        /\ SamePerm(files, manifest.files)
        /\ \A i, j \in 1..Len(files) : i < j => KeyLeq(files[i], files[j])
        /\ Len(calls) = idx - 1
        /\ \A i \in 1..Len(calls) : calls[i].file = files[i]
        /\ pc = "place" => idx <= Len(files) /\ unwrap(cur).file = files[idx]

\* C1, its case: the manifest lists a deeper directory before a shallower
\* one and both calls were made, the shallower one first.
C1_Witness ==
    /\ mode = "activate" /\ Len(calls) = 2 /\ Len(manifest.files) = 2
    /\ calls[1].file = manifest.files[2] /\ calls[2].file = manifest.files[1]
    /\ calls[1].file.kind = "directory" /\ calls[2].file.kind = "directory"
    /\ Len(calls[1].file.target) < Len(calls[2].file.target)

\* C2: Manifest deactivate calls per-entry deactivate in exactly the
\* reverse of the activation order: call i of the deactivation is on the
\* entry of call n+1-i of the activation, so the keys never increase, every
\* Copy/Symlink entry comes before any Directory entry and a deeper
\* Directory before a shallower one.
C2_DeactivationReverse ==
    (mode = "deactivate" /\ Len(done_cmds) = 1 /\ Sub(1) = "activate") =>
        /\ Len(calls) = idx - 1
        /\ \A i \in 1..Len(calls) :
             calls[i].file = done_cmds[1].calls[Len(done_cmds[1].calls) + 1 - i].file
        /\ \A i, j \in 1..Len(calls) : i < j =>
             /\ KeyLeq(calls[j].file, calls[i].file)
             /\ calls[j].file.kind \in {"copy", "symlink"}
                  => calls[i].file.kind # "directory"
             /\ (calls[i].file.kind = "directory" /\ calls[j].file.kind = "directory")
                  => Len(calls[i].file.target) >= Len(calls[j].file.target)

\* C2, its case: a Copy entry below a Directory entry was deactivated
\* before that directory, after an activation in the opposite order.
C2_Witness ==
    /\ mode = "deactivate" /\ Len(done_cmds) = 1 /\ Len(calls) = 2
    /\ calls[1].file.kind = "copy" /\ calls[2].file.kind = "directory"
    /\ parent(calls[1].file.target) = calls[2].file.target
    /\ done_cmds[1].calls[1].file = calls[2].file

\* the calls of a finished walk are one call of the sub-command on every
\* entry of the manifest
CallsCover(cs, op) ==
    /\ SamePerm(CallFiles(cs), manifest.files)
    /\ \A i \in 1..Len(cs) : cs[i].op = op

\* C3: a failure of per-entry activate or deactivate on one entry never
\* stops the walk: when a walk of Manifest activate (deactivate) is over,
\* per-entry activate (deactivate) was called exactly once for every entry
\* of the manifest, whichever calls failed.
C3_WalkNeverStops ==
    /\ \A k \in 1..Len(done_cmds) : CallsCover(done_cmds[k].calls, Sub(k))
    /\ (pc = "walk" /\ idx > Len(files)) => CallsCover(calls, mode)
    /\ \A x \in Range(CallFiles(calls)) :
         Count(x, CallFiles(calls)) <= Count(x, manifest.files)

\* C3, its case: an activation whose first call failed and whose second
\* call was made all the same, and a deactivation after it, are both over.
C3_Witness ==
    /\ Len(done_cmds) = 2 /\ Sub(1) = "activate" /\ Sub(2) = "deactivate"
    /\ Len(done_cmds[1].calls) = 2 /\ ~done_cmds[1].calls[1].ok
    /\ done_cmds[1].calls[2].ok
    /\ Len(done_cmds[2].calls) = 2

\* The equivalence check as the specification tabulates it (section 4.2.1),
\* on the observed target o (its lstat, None when absent).
ModeMatches(e, n) == is_none(e.permissions) \/ unwrap(e.permissions) = n.mode

OwnerMatches(e, n) ==
    /\ is_none(e.uid) \/ unwrap(e.uid) = n.uid
    /\ is_none(e.gid) \/ unwrap(e.gid) = n.gid

SameReferent(t, s) == t.ok /\ s.ok /\ t.path = s.path

SameContent(f, n, s) ==
    s.ok /\ node(f, s.path).type = "file" /\ node(f, s.path).content = n.content

EquivalentTo(f, e, o) ==
    CASE e.kind = "delete" -> is_none(o)
      [] e.kind = "directory" ->
           is_some(o) /\ unwrap(o).type = "dir"
           /\ ModeMatches(e, unwrap(o)) /\ OwnerMatches(e, unwrap(o))
      [] e.kind = "symlink" ->
           is_some(o) /\ unwrap(o).type = "symlink" /\ is_some(e.source)
           /\ SameReferent(fs_canonicalize(f, e.target),
                           fs_canonicalize(f, unwrap(e.source)))
           /\ OwnerMatches(e, unwrap(o))
      [] e.kind = "copy" ->
           is_some(o) /\ unwrap(o).type = "file" /\ is_some(e.source)
           /\ SameContent(f, unwrap(o), fs_canonicalize(f, unwrap(e.source)))
           /\ ModeMatches(e, unwrap(o)) /\ OwnerMatches(e, unwrap(o))
      [] e.kind = "modify" ->
           is_some(o) /\ ModeMatches(e, unwrap(o)) /\ OwnerMatches(e, unwrap(o))

Observed(f, p) == IF p \in DOMAIN f THEN Some(f[p]) ELSE None

Equivalent(f, e) == EquivalentTo(f, e, Observed(f, e.target))

\* the one call of a run of one entry was made, by sub-command op
EntryCalled(op) == Len(calls) = 1 /\ calls[1].op = op /\ Len(manifest.files) = 1

\* C4: per-entry idempotence: when the target of an entry of any kind
\* already satisfies the equivalence check on the filesystem efs the call
\* began with, activate returns success and the filesystem is efs still;
\* activate never goes on to its conflict resolution and its match on the
\* kind.
C4_EntryIdempotent ==
    /\ pc = "place" => ~Equivalent(efs, unwrap(cur).file)
    /\ (EntryCalled("activate") /\ Equivalent(efs, calls[1].file))
         => calls[1].ok /\ fs = efs

\* C4, its case: activate was called on a Copy entry with permissions and
\* an owner whose target is there and equivalent, under clobber.
C4_Witness ==
    /\ EntryCalled("activate") /\ Equivalent(efs, calls[1].file)
    /\ calls[1].file.kind = "copy" /\ exists(efs, calls[1].file.target)
    /\ is_some(calls[1].file.permissions) /\ is_some(calls[1].file.uid)
    /\ effective_clobber(calls[1].file, manifest.clobber_by_default)

NotTheSame == "File is not the same as expected"

CheckCannotTell(f, e) ==
    /\ e.kind \in {"copy", "symlink"}
    /\ \/ is_none(e.source)
       \/ ~fs_canonicalize(f, unwrap(e.source)).ok
       \/ e.kind = "symlink" /\ ~fs_canonicalize(f, e.target).ok
       \/ e.kind = "copy"
          /\ node(f, fs_canonicalize(f, unwrap(e.source)).path).type # "file"

C5_SecondActivationNoMutation ==
    (Len(done_cmds) >= 1 /\ Sub(1) = "activate"
       /\ (mode = "activate" \/ (Len(done_cmds) = 2 /\ Sub(2) = "activate")))
      => fs = snap

\* a directory that still holds something
Occupied(f, p) == Under(f, p) # {}

\* C6: after activate(M); deactivate(M) on the fresh filesystem the target
\* of every Symlink, Copy or Directory entry (a directory unless something
\* is left in it) is absent, also when M holds Modify or Delete entries on
\* the same targets.  Entries with deactivate = false are left aside.
C6_ActivateDeactivateRestores ==
    (fs0 = Fresh /\ Len(done_cmds) = 2 /\ Sub(2) = "deactivate") =>
        \A i \in 1..Len(manifest.files) :
            (manifest.files[i].kind \in {"symlink", "copy", "directory"}
               /\ manifest.files[i].deactivate # Some(FALSE))
              => \/ ~exists(fs, manifest.files[i].target)
                 \/ manifest.files[i].kind = "directory"
                    /\ Occupied(fs, manifest.files[i].target)

\* the run is the activation of one entry
ActivationOfOne ==
    /\ Len(manifest.files) = 1
    /\ \/ script # <<>> /\ Head(script).sub_command = "activate"
       \/ done_cmds # <<>> /\ Sub(1) = "activate"

\* p is there in f and is not a directory, symbolic links followed
RegularAt(f, p) ==
    Let(fs_canonicalize(f, p), LAMBDA r : r.ok /\ node(f, r.path).type # "dir")

\* C7: for a Copy or Symlink entry with effective clobber = true whose
\* target and source are both existing non-directories, the target path is
\* present in every state of per-entry activate.
C7_TargetNeverAbsent ==
    (ActivationOfOne
       /\ manifest.files[1].kind \in {"copy", "symlink"}
       /\ effective_clobber(manifest.files[1], manifest.clobber_by_default)
       /\ is_some(manifest.files[1].source)
       /\ RegularAt(fs0, unwrap(manifest.files[1].source))
       /\ exists(fs0, manifest.files[1].target)
       /\ fs0[manifest.files[1].target].type # "dir")
      => exists(fs, manifest.files[1].target)

\* where prefix-move is to put the artifact that was at p
BackupPath(p, pre) == Append(parent(p), pre \o file_name(p))

\* the target holds what the entry asks for: the bytes of the source of a
\* Copy entry, a link to the source of a Symlink entry
HoldsEntryContent(f, e) ==
    /\ exists(f, e.target)
    /\ IF e.kind = "copy"
       THEN f[e.target].type = "file"
            /\ SameContent(f, f[e.target], fs_canonicalize(f, unwrap(e.source)))
       ELSE f[e.target].type = "symlink"
            /\ SameReferent(fs_canonicalize(f, e.target),
                            fs_canonicalize(f, unwrap(e.source)))

\* C9: backup on conflict: after a successful activate of a Copy or
\* Symlink entry with effective clobber = false whose target was there and
\* not equivalent, the original artifact is, unmodified, at
\* parent(target)/(prefix + basename(target)) and the target holds the
\* entry's content.
C9_BackupOnConflict ==
    (EntryCalled("activate") /\ calls[1].ok
       /\ calls[1].file.kind \in {"copy", "symlink"}
       /\ ~effective_clobber(calls[1].file, manifest.clobber_by_default)
       /\ is_some(calls[1].file.source)
       /\ exists(fs0, calls[1].file.target)
       /\ ~Equivalent(fs0, calls[1].file))
      => /\ exists(fs, BackupPath(calls[1].file.target, prefix))
         /\ fs[BackupPath(calls[1].file.target, prefix)] = fs0[calls[1].file.target]
         /\ HoldsEntryContent(fs, calls[1].file)

\* C10: diff(old = M, new = M), run after activate(M), performs no mutation
\* of the filesystem: all along the diff the filesystem is the one it began
\* with (snap).
C10_DiffOfSameNoMutation ==
    (manifest = old_manifest /\ Len(done_cmds) = 1 /\ Sub(1) = "activate"
       /\ script # <<>> /\ Head(script).sub_command = "diff" /\ pc # "idle")
      => fs = snap

\* the diff sub-command is running, or is over as command k of the run
DiffRunning == script # <<>> /\ Head(script).sub_command = "diff" /\ pc # "idle"

DiffDone(k) == Len(done_cmds) = k /\ Sub(k) = "diff"

\* the entries of the new manifest on target t
NewOn(t) == {i \in 1..Len(manifest.files) : manifest.files[i].target = t}

TheNewOn(t) == manifest.files[CHOOSE i \in NewOn(t) : TRUE]

\* the old manifest is one Symlink entry o, activated before the diff, the
\* new manifest has one entry on the target of o, a Symlink entry of
\* another, existing source; clobber is unset in both and the target
\* matched o when the diff began (snap)
SwapCase ==
    /\ Len(old_manifest.files) = 1 /\ Len(done_cmds) >= 1 /\ Sub(1) = "activate"
    /\ DiffRunning \/ DiffDone(2)
    /\ old_manifest.files[1].kind = "symlink" /\ old_manifest.files[1].clobber = None
    /\ Cardinality(NewOn(old_manifest.files[1].target)) = 1
    /\ TheNewOn(old_manifest.files[1].target).kind = "symlink"
    /\ TheNewOn(old_manifest.files[1].target).clobber = None
    /\ TheNewOn(old_manifest.files[1].target).source # old_manifest.files[1].source
    /\ is_some(TheNewOn(old_manifest.files[1].target).source)
    /\ RegularAt(fs0, unwrap(TheNewOn(old_manifest.files[1].target).source))
    /\ Equivalent(snap, old_manifest.files[1])

\* the calls of the diff on entry e, by what was done
CallsOn(cs, e, op) == {i \in 1..Len(cs) : cs[i].file = e /\ cs[i].op = op}

C12_SecondDeactivateIsNoOp ==
    (Len(done_cmds) >= 2 /\ Sub(1) = "activate" /\ Sub(2) = "deactivate"
       /\ (mode = "deactivate" \/ Len(done_cmds) = 3))
      => /\ fs = snap
         /\ \A i \in 1..Len(calls) : calls[i].ok

\* the source of a Copy or Symlink entry is unusable on f: there is no
\* source field, the source path does not exist, or (Copy) it is not a
\* regular file
SourceUnusable(f, e) ==
    /\ e.kind \in {"copy", "symlink"}
    /\ \/ is_none(e.source)
       \/ ~fs_canonicalize(f, unwrap(e.source)).ok
       \/ e.kind = "copy"
          /\ node(f, fs_canonicalize(f, unwrap(e.source)).path).type # "file"

\* C13: source preflight: when a Copy or Symlink entry has no source, a
\* source that does not exist or (Copy) a source that is not a regular
\* file, per-entry activate returns success and the filesystem is unchanged
\* in every state of the call: an existing target is neither deleted nor
\* moved to a backup.
C13_SourcePreflight ==
    (ActivationOfOne /\ SourceUnusable(fs0, manifest.files[1]))
      => /\ fs = fs0
         /\ EntryCalled("activate") => calls[1].ok

\* the version of the manifest is greater than the program's
NewerVersion(d) == d.opens /\ d.json /\ d.version = "u64" /\ d.number > VERSION

\* the manifest does not parse: it cannot be opened, is not JSON, has no
\* version or a version that is not an integer, or does not deserialize
ParseFailure(d) ==
    \/ ~d.opens \/ ~d.json \/ d.version \in {"missing", "not_u64"}
    \/ d.version = "u64" /\ d.number <= VERSION /\ ~d.body

\* C14: reading a manifest of a greater version ends the run with exit code
\* 2, any parse failure (a missing or non-integer version included) ends it
\* with exit code 3, and in both cases nothing was changed in the
\* filesystem and nothing is changed afterwards.
C14_ReadExitCodes ==
    pc # "read" =>
        /\ NewerVersion(document) => exit_code = Some(2)
        /\ ParseFailure(document) => exit_code = Some(3)
        /\ is_some(exit_code) => pc = "exited" /\ fs = fs0 /\ calls = <<>>

\* C15: activating a Modify entry whose target is absent fails with "file
\* does not exist"; nothing is created at the target and the filesystem is
\* unchanged in every state of the call.
C15_ModifyAbsentTarget ==
    (ActivationOfOne /\ manifest.files[1].kind = "modify"
       /\ manifest.files[1].target \notin DOMAIN fs0)
      => /\ fs = fs0
         /\ EntryCalled("activate")
              => ~calls[1].ok /\ calls[1].err = "file does not exist"

\* C15, its case: activate was called on a Modify entry with permissions
\* and an owner whose target is absent.
C15_Witness ==
    /\ EntryCalled("activate") /\ calls[1].file.kind = "modify"
    /\ calls[1].file.target \notin DOMAIN fs0
    /\ is_some(calls[1].file.permissions) /\ is_some(calls[1].file.uid)
    /\ ~calls[1].ok

\* the partition of diff was made and nothing else was done yet
Partitioned == DiffRunning /\ pc = "walk" /\ mode = "deactivate" /\ idx = 1

\* the old and the new entries of the pairs of updated_files
PairedOld == [i \in 1..Len(updated_files) |-> updated_files[i][1]]

PairedNew == [i \in 1..Len(updated_files) |-> updated_files[i][2]]

Least(a, b) == IF a <= b THEN a ELSE b

\* C16: every entry o of old that has an equal entry n in new joins
\* identical with it, is not left to be deactivated and is not paired as
\* updated, also when old or new hold several entries on one target: an
\* entry is in identical as often as it has a partner, that is as often as
\* it occurs in both lists.
C16_IdenticalRule ==
    Partitioned =>
        \A x \in Range(old_manifest.files) :
            Count(x, same_files)
              = Least(Count(x, old_manifest.files), Count(x, manifest.files))

\* no entry of old before entry j has the target of entry j
FirstOnTarget(j) ==
    \A i \in 1..(j - 1) : old_manifest.files[i].target # old_manifest.files[j].target

\* n can be the new side of a pair with o
Pairable(o, n) == n.target = o.target /\ n.kind \in {"symlink", "copy"}

\* C17 as stated: an entry o of old with no equal entry in new is paired
\* exactly when new holds an entry of the same target and of kind Symlink
\* or Copy, and otherwise stays in old; what is left of new is neither
\* equal to an old entry nor paired.
C17_UpdatedRule ==
    Partitioned =>
        /\ \A j \in 1..Len(old_manifest.files) :
             old_manifest.files[j] \notin Range(manifest.files) =>
               IF \E i \in 1..Len(manifest.files) :
                      Pairable(old_manifest.files[j], manifest.files[i])
               THEN old_manifest.files[j] \in Range(PairedOld)
               ELSE /\ old_manifest.files[j] \in Range(files)
                    /\ old_manifest.files[j] \notin Range(PairedOld)
        /\ \A k \in 1..Len(updated_files) : Pairable(PairedOld[k], PairedNew[k])
        /\ \A x \in Range(new_files) :
             x \notin Range(old_manifest.files) /\ x \notin Range(PairedNew)

\* C17, amended: the entries of old are taken in their order, each against
\* what is left of new.  A pair (o, n) is only made of an n with the target
\* of o and of kind Symlink or Copy.  An entry o of old with no equal entry
\* in new that is the first of old on its target is paired exactly when new
\* holds such an n, and otherwise stays in old to be deactivated.  After
\* the partition every entry of old and of new is in exactly one place
\* (identical, a pair, or left), and nothing left in new is equal to or
\* could be paired with anything left in old.
C17_UpdatedRuleInOrder ==
    Partitioned =>
        /\ \A k \in 1..Len(updated_files) : Pairable(PairedOld[k], PairedNew[k])
        /\ \A j \in 1..Len(old_manifest.files) :
             (FirstOnTarget(j) /\ old_manifest.files[j] \notin Range(manifest.files)) =>
               IF \E i \in 1..Len(manifest.files) :
                      Pairable(old_manifest.files[j], manifest.files[i])
               THEN old_manifest.files[j] \in Range(PairedOld)
               ELSE /\ old_manifest.files[j] \in Range(files)
                    /\ old_manifest.files[j] \notin Range(PairedOld)
        /\ SamePerm(manifest.files, same_files \o PairedNew \o new_files)
        /\ SamePerm(old_manifest.files, same_files \o PairedOld \o files)
        /\ \A x \in Range(files), y \in Range(new_files) : x # y /\ ~Pairable(x, y)

\* C17, its case: of two old entries on one target, neither in new, the
\* first was paired with the one new entry on that target and the second
\* stays in old; another new entry is left in new.
C17_Witness ==
    /\ Partitioned /\ Len(old_manifest.files) = 2 /\ Len(manifest.files) = 2
    /\ Len(updated_files) = 1 /\ Len(files) = 1 /\ Len(new_files) = 1
    /\ PairedOld[1] = old_manifest.files[1]
    /\ files[1] = old_manifest.files[2]
    /\ files[1].target = PairedOld[1].target

\* the phase of Manifest::diff a call belongs to: the deactivation of the
\* removed entries, the loop over the updated pairs, the final activate
Phase(op) == IF op = "deactivate" THEN 1 ELSE IF op = "activate" THEN 3 ELSE 2

PhaseCalls(cs, ph) == SelectSeq(cs, LAMBDA c : Phase(c.op) = ph)

\* the loop over the updated pairs has begun / the final activate has begun
UpdatesBegun == pc \in {"updated", "swap"} \/ mode = "activate"

\* C18: in a diff no call of a later phase comes before a call of an
\* earlier one; when the loop over the updated pairs begins every removed
\* old entry has had its deactivate call, and when the final activate
\* begins every updated pair has had its turn, in the order of the pairs,
\* and the entries that are activated are those left in new, those queued
\* by the loop and the identical ones.
C18_DiffOrder ==
    DiffRunning =>
        \A st \in {partition(manifest.files, old_manifest.files)} :
            /\ \A i, j \in 1..Len(calls) :
                 i < j => Phase(calls[i].op) <= Phase(calls[j].op)
            /\ UpdatesBegun =>
                 CallFiles(PhaseCalls(calls, 1)) = deactivate_order(st.old)
            /\ mode = "activate" =>
                 /\ updated_files = <<>>
                 /\ CallFiles(PhaseCalls(calls, 2))
                      = [k \in 1..Len(st.updated) |-> st.updated[k][2]]
                 /\ files = activate_order(new_files \o same_files)
            /\ ~UpdatesBegun => PhaseCalls(calls, 2) = <<>> /\ PhaseCalls(calls, 3) = <<>>
            /\ mode # "activate" => PhaseCalls(calls, 3) = <<>>

\* C18, its case: a diff that has deactivated a removed entry, processed an
\* updated pair and reached the final activate with an entry to activate
C18_Witness ==
    /\ DiffRunning /\ mode = "activate" /\ idx > 1
    /\ PhaseCalls(calls, 1) # <<>>
    /\ PhaseCalls(calls, 2) # <<>>
    /\ PhaseCalls(calls, 3) # <<>>

\* the pair the loop over updated_files is about to take
PairOld == Head(updated_files)[1]

PairNew == Head(updated_files)[2]

\* the pair at the head of updated_files has an old entry whose effective
\* clobber is false and whose target exists and is not equivalent to it
TamperedPair ==
    /\ DiffRunning /\ pc = "updated" /\ updated_files # <<>>
    /\ ~unwrap_or(PairOld.clobber, unwrap_or(old_manifest.clobber_by_default, FALSE))
    /\ is_some(Observed(fs, PairOld.target))
    /\ ~Equivalent(fs, PairOld)

\* the turn of the loop moved what was at path p to the backup path of p
\* and changed nothing else
MovedToBackup(p) ==
    /\ p \notin DOMAIN fs'
    /\ BackupPath(p, prefix) \in DOMAIN fs'
    /\ fs'[BackupPath(p, prefix)] = fs[p]
    /\ \A q \in DOMAIN fs : ~IsPrefix(p, q) => (q \in DOMAIN fs' /\ fs'[q] = fs[q])

\* C19: the turn of the loop over updated_files on a pair (o, n) whose old
\* entry has effective clobber false and whose target exists and is not
\* equivalent to o moves the target to the backup path, queues n for the
\* final activate and attempts no atomic swap.
C19_TamperedIsBackedUp ==
    [][ TamperedPair =>
          /\ pc' = "updated"
          /\ calls' = Append(calls, [op |-> "backup", file |-> PairNew,
                                     ok |-> TRUE, err |-> ""])
          /\ new_files' = Append(new_files, PairNew)
          /\ MovedToBackup(PairOld.target) ]_vars

\* C20: every turn of the loop over updated_files either swaps the new
\* entry of the pair in atomically, with success, or queues it for the
\* final activate: no new entry is dropped.
C20_NoNewEntryDropped ==
    [][ (DiffRunning /\ updated_files # <<>> /\ updated_files' = Tail(updated_files)) =>
          \/ new_files' = Append(new_files, PairNew)
          \/ /\ calls'[Len(calls')].op = "atomic"
             /\ calls'[Len(calls')].ok
             /\ calls'[Len(calls')].file = PairNew ]_vars

\* File::activate is about to be called on the next entry of the walk
ActivateTurn == pc = "walk" /\ mode = "activate" /\ idx <= Len(files)

\* entry.clobber ?? clobber_by_default ?? false
ClaimedClobber(e, m) ==
    IF is_some(e.clobber) THEN unwrap(e.clobber)
    ELSE IF is_some(m.clobber_by_default) THEN unwrap(m.clobber_by_default)
    ELSE FALSE

\* every artifact of f is in g, at its path or at another one
Kept(f, g) ==
    /\ Cardinality(DOMAIN g) = Cardinality(DOMAIN f)
    /\ \A q \in DOMAIN f : \E q2 \in DOMAIN g : g[q2] = f[q]

\* C21: the conflict resolution of per-entry activate works with
\* entry.clobber if set, else the manifest's clobber_by_default if set, else
\* false: when that value is false (an entry-level false under a default of
\* true, or both unset) it deletes nothing, every artifact is still there
\* afterwards; when it is true it makes no backup, no new path appears.
C21_EffectiveClobber ==
    [][ ActivateTurn =>
          IF ClaimedClobber(files[idx], the_manifest(Head(script).manifest))
          THEN DOMAIN fs' \subseteq DOMAIN fs
          ELSE Kept(fs, fs') ]_vars

\* C21, its cases: the conflict resolution has moved the target aside for an
\* entry with clobber = false under a manifest default of true
C21_Witness ==
    /\ pc = "place" /\ Len(manifest.files) = 1
    /\ manifest.files[1].clobber = Some(FALSE)
    /\ manifest.clobber_by_default = Some(TRUE)
    /\ manifest.files[1].target \in DOMAIN efs
    /\ manifest.files[1].target \notin DOMAIN fs
    /\ BackupPath(manifest.files[1].target, prefix) \in DOMAIN fs
    /\ fs[BackupPath(manifest.files[1].target, prefix)] = efs[manifest.files[1].target]

\* the conflict resolution has nothing to resolve for entry e on f: e is a
\* Modify or Delete entry, or a Directory entry whose target is a directory
NothingToResolve(f, e) ==
    \/ e.kind \in {"modify", "delete"}
    \/ e.kind = "directory" /\ is_some(Observed(f, e.target))
         /\ unwrap(Observed(f, e.target)).type = "dir"

\* f and g differ at most in the mode and the owner of path p
OnlyMetadataOf(f, g, p) ==
    /\ DOMAIN g = DOMAIN f
    /\ \A q \in DOMAIN f :
         IF q = p THEN g[q].type = f[q].type /\ g[q].content = f[q].content
                       /\ g[q].link = f[q].link
         ELSE g[q] = f[q]

\* C22: the conflict resolution of per-entry activate leaves the filesystem
\* as it is for a Modify or Delete entry and for a Directory entry whose
\* target is a directory; after the activation of a Directory entry on an
\* existing directory the directory and its contents are still there and at
\* most the mode and the owner of the directory have changed.
C22_ResolutionSparesTarget ==
    [][ /\ (ActivateTurn /\ NothingToResolve(fs, files[idx])) => fs' = fs
        /\ (pc = "place" /\ unwrap(cur).file.kind = "directory"
              /\ NothingToResolve(efs, unwrap(cur).file))
             => OnlyMetadataOf(efs, fs', unwrap(cur).file.target) ]_vars

\* C23: prefix_move on an existing path T ends with T absent and what was
\* at T at the backup path parent(T)/(prefix + basename(T)), whatever was
\* at the backup path before; no path other than the backup path (and what
\* lies under it) is created, so no chain of backups grows.
C23_PrefixMove ==
    (pc = "moved" /\ files[1].target \in DOMAIN efs)
      => /\ calls[1].ok
         /\ files[1].target \notin DOMAIN fs
         /\ BackupPath(files[1].target, prefix) \in DOMAIN fs
         /\ fs[BackupPath(files[1].target, prefix)] = efs[files[1].target]
         /\ \A q \in (DOMAIN fs) \ (DOMAIN efs) :
              IsPrefix(BackupPath(files[1].target, prefix), q)

\* File::check is about to be called on entry e with the target observed:
\* by File::activate or by File::deactivate on the next entry of the walk
CheckTurn ==
    /\ pc = "walk" /\ idx <= Len(files)
    /\ mode = "deactivate" => unwrap_or(files[idx].deactivate, TRUE)
    /\ ~missing_source(files[idx]) \/ mode = "deactivate"
    /\ set_metadata(fs, files[idx]).ok

\* the check of entry e on filesystem f holds
CheckHolds(f, e) ==
    Let(check(f, e, set_metadata(f, e).md), LAMBDA c : c.ok /\ c.val)

\* the equivalence of a Symlink entry: the target is itself a symbolic link
\* that, with follow_symlinks (the default), resolves to what the source
\* resolves to, and otherwise stores the absolute source path; uid and gid
\* match where set
SymlinkEquivalent(f, e) ==
    /\ is_some(Observed(f, e.target))
    /\ unwrap(Observed(f, e.target)).type = "symlink"
    /\ is_some(e.source)
    /\ IF unwrap_or(e.follow_symlinks, TRUE)
       THEN SameReferent(fs_canonicalize(f, e.target),
                         fs_canonicalize(f, unwrap(e.source)))
       ELSE unwrap(Observed(f, e.target)).link = unwrap(e.source)
    /\ OwnerMatches(e, unwrap(Observed(f, e.target)))

\* C24: the check of a Symlink entry holds exactly when the target is a
\* symbolic link that resolves to the source's referent (follow_symlinks)
\* or stores the absolute source path (otherwise), with uid and gid as
\* set; it never holds for a regular file or a directory at the target.
C24_SymlinkCheck ==
    (CheckTurn /\ files[idx].kind = "symlink")
      => (CheckHolds(fs, files[idx]) <=> SymlinkEquivalent(fs, files[idx]))

\* C25: for an entry of kind Delete, Directory, Copy or Modify the check
\* holds exactly when the observed target satisfies the equivalence of its
\* kind: Delete, the target is absent; Directory, it is a directory; Copy,
\* it is a regular file with the content of the source; Modify, it exists;
\* and permissions, uid and gid match where the entry sets them.
C25_CheckIsEquivalence ==
    (CheckTurn /\ files[idx].kind \in {"delete", "directory", "copy", "modify"})
      => (CheckHolds(fs, files[idx]) <=> Equivalent(fs, files[idx]))

\* C25, its case: activate has found a Copy entry with permissions, uid and
\* gid set already correct on a target that satisfies the equivalence
C25_Witness ==
    /\ EntryCalled("activate") /\ calls[1].ok /\ fs = fs0
    /\ calls[1].file.kind = "copy"
    /\ is_some(calls[1].file.permissions) /\ is_some(calls[1].file.uid)
    /\ is_some(calls[1].file.gid)
    /\ exists(fs0, calls[1].file.target)
    /\ Equivalent(fs0, calls[1].file)

\* C26: when the activation of a Symlink entry with follow_symlinks =
\* false has created the link, the text the link stores is the source path
\* of the entry, also when the source is itself a symbolic link.
C26_LinkStoresSourcePath ==
    (EntryCalled("activate") /\ calls[1].ok
       /\ calls[1].file.kind = "symlink"
       /\ calls[1].file.follow_symlinks = Some(FALSE)
       /\ is_some(calls[1].file.source)
       /\ calls[1].file.target \notin DOMAIN fs0)
      => /\ calls[1].file.target \in DOMAIN fs
         /\ fs[calls[1].file.target].type = "symlink"
         /\ fs[calls[1].file.target].link = unwrap(calls[1].file.source)

\* the entry of the one call made so far and its target
TheEntry == calls[1].file

\* C27: the activation of a Symlink entry, or of a Modify entry whose
\* target is a symbolic link, changes no mode: not that of the link, not
\* that of the file the link refers to, nor any other; and it changes the
\* owner of nothing but the link itself.
C27_NoModeThroughLink ==
    (EntryCalled("activate")
       /\ \/ TheEntry.kind = "symlink"
          \/ /\ TheEntry.kind = "modify"
             /\ TheEntry.target \in DOMAIN fs0
             /\ fs0[TheEntry.target].type = "symlink")
      => \A q \in (DOMAIN fs0) \cap (DOMAIN fs) :
           /\ (q # TheEntry.target \/ TheEntry.kind = "modify")
                => fs[q].mode = fs0[q].mode
           /\ q # TheEntry.target
                => fs[q].uid = fs0[q].uid /\ fs[q].gid = fs0[q].gid

\* C28: after a successful activation of a Directory, Copy or Modify entry
\* the target has the mode, the uid and the gid the entry sets, whatever
\* fields are set and whatever the target was before.
C28_MetadataApplied ==
    (EntryCalled("activate") /\ calls[1].ok
       /\ TheEntry.kind \in {"directory", "copy", "modify"}
       /\ ~missing_source(TheEntry)
       /\ TheEntry.target \in DOMAIN fs
       /\ fs[TheEntry.target].type # "symlink")
      => /\ ModeMatches(TheEntry, fs[TheEntry.target])
         /\ OwnerMatches(TheEntry, fs[TheEntry.target])

\* the one call made so far was File::deactivate on an entry that is not
\* skipped (deactivate is not false)
Deactivated ==
    EntryCalled("deactivate") /\ unwrap_or(TheEntry.deactivate, TRUE)

DeactivatedNoOp ==
    /\ EntryCalled("deactivate")
    /\ TheEntry.deactivate = Some(FALSE) \/ TheEntry.kind \in {"delete", "modify"}

\* C30 as stated: per-entry deactivate returns success and leaves the
\* filesystem unchanged for every entry with deactivate = false and for
\* every Delete or Modify entry, whatever the state of the target.
C30_DeactivateNoOpSucceeds ==
    DeactivatedNoOp => calls[1].ok /\ fs = fs0

\* C30, amended: per-entry deactivate leaves the filesystem unchanged for
\* every entry with deactivate = false and for every Delete or Modify
\* entry.  It returns success when deactivate is false, when the target is
\* absent, and when the target satisfies the equivalence check of the
\* entry; on a target that exists and does not satisfy it (for a Delete
\* entry: every target that exists) it fails with "File is not the same as
\* expected".
C30_DeactivateNoOpKeeps ==
    DeactivatedNoOp =>
        /\ fs = fs0
        /\ calls[1].ok <=> \/ TheEntry.deactivate = Some(FALSE)
                           \/ TheEntry.target \notin DOMAIN fs0
                           \/ Equivalent(fs0, TheEntry)
        /\ ~calls[1].ok => calls[1].err = "File is not the same as expected"

\* C30, its cases: the deactivation of a Delete entry has failed on a
\* target that exists, and left it
C30_Witness ==
    /\ DeactivatedNoOp /\ TheEntry.kind = "delete" /\ TheEntry.deactivate = None
    /\ TheEntry.target \in DOMAIN fs0
    /\ ~calls[1].ok /\ fs = fs0

\* entries for a file of a directory that the manifest also manages: two
\* copies to /t/d/f, the directory /t/d kept private, and a link beside it
RedoFiles ==
    { File(Some(S_A), T_DF, "copy", None, None, None, None, None),
      File(Some(S_B), T_DF, "copy", None, None, None, None, None),
      File(None, T_D, "directory", None, Some(448), None, None, None),
      File(Some(S_A), T_L, "symlink", None, None, None, None, None) }

\* Whole-run level: diff(new, old) after activate(old) on the fresh
\* filesystem, for any two manifests of up to MaxFiles of these entries.
InitRedo ==
    \E new \in SeqsUpTo(RedoFiles, MaxFiles), old \in SeqsUpTo(RedoFiles, MaxFiles) :
        InitWith(Fresh, <<Invocation("activate", "old"), Invocation("diff", "new")>>,
                 Manifest(new, None), Manifest(old, None))

SpecRedo == InitRedo /\ [][NextPartition]_vars

\* no two entries of s have the same target
DistinctTargets(s) ==
    \A i, j \in 1..Len(s) : i # j => s[i].target # s[j].target

\* every source an entry of s names resolves on f
SourcesExist(f, s) ==
    \A i \in 1..Len(s) :
        is_some(s[i].source) => fs_canonicalize(f, unwrap(s[i].source)).ok

\* the targets old or new name
NamedTargets ==
    {old_manifest.files[i].target : i \in 1..Len(old_manifest.files)}
      \cup {manifest.files[i].target : i \in 1..Len(manifest.files)}

\* f and g hold the same artifact at path t: both nothing, or the same
\* type, content, mode and owner, and for a link the same referent
SameArtifact(f, g, t) ==
    /\ t \in DOMAIN f <=> t \in DOMAIN g
    /\ t \in DOMAIN f =>
         /\ f[t].type = g[t].type /\ f[t].content = g[t].content
         /\ f[t].mode = g[t].mode /\ f[t].uid = g[t].uid /\ f[t].gid = g[t].gid
         /\ f[t].link = g[t].link

\* diff(new, old) has run to its end on the filesystem that activate(old)
\* made of the fresh one, for manifests of pairwise distinct targets whose
\* sources exist
DiffAfterActivate ==
    /\ fs0 = Fresh
    /\ DiffDone(2) /\ Sub(1) = "activate"
    /\ done_cmds[1].invocation.manifest = "old"
    /\ DistinctTargets(old_manifest.files) /\ DistinctTargets(manifest.files)
    /\ SourcesExist(fs0, old_manifest.files) /\ SourcesExist(fs0, manifest.files)

\* C31: diff(new, old) on the filesystem made by activate(old) leaves, at
\* every target old or new names, the artifact that deactivate(old) followed
\* by activate(new) leaves there on the same filesystem.
C31_DiffAgreesWithRedo ==
    DiffAfterActivate =>
        \A g \in {Manifest_activate(Manifest_deactivate(snap, old_manifest),
                                    manifest, prefix)} :
            \A t \in NamedTargets : SameArtifact(fs, g, t)


\* copies to /t/f under every clobber setting of the entry
ClobberFiles ==
    { File(Some(src), T_F, "copy", cl, None, None, None, None) :
        src \in {S_A, S_B}, cl \in OptBool }

\* /t/f when diff starts: absent, as the old entry made it, or replaced by
\* the user with a file or a link of their own
ClobberStates ==
    { Fresh,
      With(Fresh, T_F, FileNode("A", 420, 0, 0)),
      With(Fresh, T_F, FileNode("X", 420, 0, 0)),
      With(With(Fresh, T_G, FileNode("X", 420, 0, 0)), T_F, LinkNode(T_G, 0, 0)) }

\* Clobber level: diff(new, old) on a filesystem as it is, for an old and a
\* new entry on /t/f, each manifest with its own clobber_by_default, the old
\* one with or without a link that the new one drops.
InitClobber ==
    \E o \in ClobberFiles, n \in ClobberFiles, od \in OptBool, nd \in OptBool,
       f \in ClobberStates,
       rest \in {<<>>, <<File(Some(S_A), T_L, "symlink", None, None, None, None, None)>>} :
        InitWith(f, <<Invocation("diff", "new")>>,
                 Manifest(<<n>>, nd), Manifest(<<o>> \o rest, od))

NextClobber ==
    \/ StartDiff
    \/ DeactivateFile
    \/ DiffDeactivated
    \/ DiffUpdate
    \/ DiffSwap
    \/ DiffActivate
    \/ ActivateResolve
    \/ ActivatePlace
    \/ EndWalk

SpecClobber == InitClobber /\ [][NextClobber]_vars

\* the loop over updated_files is at a pair (o, n) whose new entry has
\* effective clobber false and whose target exists and is not equivalent
\* to o, before the turn or between the two steps of its swap
UnclobberablePair ==
    /\ DiffRunning /\ pc \in {"updated", "swap"} /\ updated_files # <<>>
    /\ ~ClaimedClobber(PairNew, manifest)
    /\ is_some(Observed(fs, PairOld.target))
    /\ ~Equivalent(fs, PairOld)

\* the step leaves what is at path p, or p's backup path holds it afterwards
KeptOrBackedUp(p) ==
    \/ p \in DOMAIN fs' /\ fs'[p] = fs[p]
    \/ BackupPath(p, prefix) \in DOMAIN fs' /\ fs'[BackupPath(p, prefix)] = fs[p]

\* C32: in the loop over updated_files, for a pair (o, n) whose new entry
\* has effective clobber false (n.clobber, else the new manifest's
\* clobber_by_default, else false), a target that exists and is not
\* equivalent to o is not overwritten or deleted unless it has been moved
\* to the backup path, whatever the clobber of o is.
C32_NewClobberHonoured ==
    [][ UnclobberablePair => KeptOrBackedUp(PairOld.target) ]_vars


\* C33: no unwrap of an absent value is reached in per-entry activate or
\* deactivate: no call ends in the panic of Option::unwrap, and the match
\* on the kind in activate is entered by a Delete entry only with the
\* target observed and by a Symlink or Copy entry only with a source.
C33_NoUnwrapOfNone ==
    /\ \A i \in 1..Len(calls) : calls[i].err # UnwrapNone
    /\ pc = "place" =>
         /\ unwrap(cur).file.kind = "delete" => is_some(unwrap(cur).metadata)
         /\ unwrap(cur).file.kind \in {"symlink", "copy"} =>
              is_some(unwrap(cur).file.source)

\* C33, its cases: a Delete entry has been activated on a target that was
\* there, through the Delete arm, and the target is gone
C33_Witness ==
    /\ calls # <<>> /\ calls[1].op = "activate" /\ calls[1].ok
    /\ TheEntry.kind = "delete"
    /\ TheEntry.target \in DOMAIN fs0 /\ TheEntry.target \notin DOMAIN fs

=============================================================================
